---------------------------- MODULE Spec2Model ----------------------------
(***************************************************************************)
(* Model of the review backend of Code-Review-Helper: the tool-calling     *)
(* loop of POST /ai/review/stream, its path confinement and its event      *)
(* stream.  Two builds of the backend exist in the repository:             *)
(*   "upd"  src/unnamed/part_004      (the build that declares updateFile) *)
(*   "idx"  src/backend/src/index.ts  (the build without updateFile)       *)
(* The variable `variant` says which build the modelled process runs.      *)
(*                                                                         *)
(* Strings are sequences of atoms.  The atoms "/", "\\", "." and " " are   *)
(* the characters the code inspects; every other atom is an opaque run of  *)
(* name characters ("a", "etc", "CodeZips", ...).  "(unknown)" is the      *)
(* sentinel of the code, kept as one atom.  JavaScript null / undefined /  *)
(* a non-string value is NULL.                                             *)
(***************************************************************************)
EXTENDS Integers, Sequences, FiniteSets, TLC

VARIABLES
    variant,                \* which build runs: "upd" or "idx"
    hasKey,                 \* process.env.GEMINI_API_KEY is set
    ORIGINAL_ROOT_LOCATION, \* the module-level root (part_004:101, index.ts:101)
    req,                    \* per request: the handler's position and locals
    messages,               \* rows of chat_messages, in insertion order
    probe                   \* a direct call of listFilesTool: its argument and outcome

vars == <<variant, hasKey, ORIGINAL_ROOT_LOCATION, req, messages, probe>>

\* ------------------------------------------------------------------ bounds

\* longest candidate location (in atoms) handed to listFilesTool directly
MaxLen == 3
\* longest session root (in atoms) in the direct calls of listFilesTool
MaxRootLen == 2

\* ------------------------------------------------------------------ strings

NULL == <<"null">>
\* a local of the handler that is not yet assigned
UNSET == <<"unset">>
UNKNOWN == <<"(unknown)">>

Atoms == {"/", "\\", ".", " ", "a"}

StrUpTo(n) == UNION {[1..k -> Atoms] : k \in 0..n}

\* the characters of the class [\\/] and the white space trim() removes
Seps == {"/", "\\"}

Spaces == {" "}

IsSep(c) == c \in Seps

StartsWith(s, p) == Len(p) <= Len(s) /\ SubSeq(s, 1, Len(p)) = p

EndsWith(s, p) == Len(p) <= Len(s) /\ SubSeq(s, Len(s) - Len(p) + 1, Len(s)) = p

\* number of leading / trailing atoms of s that belong to the class
Lead(s, class) ==
    CHOOSE k \in 0..Len(s) :
        (\A i \in 1..k : s[i] \in class) /\ (k = Len(s) \/ s[k + 1] \notin class)

Trail(s, class) ==
    CHOOSE k \in 0..Len(s) :
        (\A i \in (Len(s) - k + 1)..Len(s) : s[i] \in class)
        /\ (k = Len(s) \/ s[Len(s) - k] \notin class)

DropLead(s, class) == SubSeq(s, Lead(s, class) + 1, Len(s))

DropTrail(s, class) == SubSeq(s, 1, Len(s) - Trail(s, class))

\* String.prototype.trim
Trim(s) == DropTrail(DropLead(s, Spaces), Spaces)

\* JavaScript truthiness of a value that is a string or null
Truthy(s) == s # NULL /\ s # <<>>

\* ------------------------------------------------------------------ part_004

\* part_004:339-341
isUnknownPath(s) ==
    ~Truthy(s) \/ Trim(s) = <<>> \/ Trim(s) = UNKNOWN

\* part_004:329-331, over the module-level root
hasRealRootAlways(root) == TRUE

hasRealRoot(root) == Truthy(root) /\ root # UNKNOWN

\* part_004:103-115
validateLocationKeepsGiven(location, rootLocation) ==
    IF isUnknownPath(location) THEN rootLocation ELSE location

validateLocation(location, rootLocation) ==
    IF isUnknownPath(location) THEN rootLocation
    ELSE LET cleanLocation == DropLead(location, Seps)
             cleanRoot == DropTrail(rootLocation, Seps)
         IN  IF location = cleanRoot \/ StartsWith(location, cleanRoot \o <<"/">>)
             THEN location
             ELSE cleanRoot \o <<"/">> \o cleanLocation

\* part_004:127-130, the guard after validateLocation
StartsWithRootAlways(validatedLocation, root) == TRUE

StartsWithRoot(validatedLocation, root) == StartsWith(validatedLocation, root)

\* a call that throws, with the message of its Error
Thrown(message) == [thrown |-> TRUE, location |-> NULL, error |-> message]

\* a call that goes on to request `location` from storage
Listing(location) == [thrown |-> FALSE, location |-> location, error |-> ""]

\* part_004:117-145 up to the await of namespace.getFiles: either the call
\* throws, or `location` is what is requested from storage
listFilesTool(location, root) ==
    IF ~hasRealRoot(root) THEN Thrown("rootLocation is not set; cannot proceed.")
    ELSE IF isUnknownPath(location)
    THEN Thrown("listFiles: invalid 'location' (unknown/empty).")
    ELSE LET validatedLocation == validateLocation(location, root)
         IN  IF ~StartsWithRoot(validatedLocation, root)
             THEN Thrown("listFiles: location must start with root")
             ELSE Listing(validatedLocation)

\* ------------------------------------------------------------------ index.ts

\* index.ts:103-123
validateLocationIdx(location, rootLocation) ==
    IF ~Truthy(location) THEN rootLocation
    ELSE IF location = rootLocation THEN location
    ELSE IF StartsWith(location, rootLocation) THEN location
    ELSE LET cleanLocation ==
                 IF StartsWith(location, <<"/">>)
                 THEN SubSeq(location, 2, Len(location)) ELSE location
             cleanRoot ==
                 IF EndsWith(rootLocation, <<"/">>)
                 THEN SubSeq(rootLocation, 1, Len(rootLocation) - 1)
                 ELSE rootLocation
         IN  cleanRoot \o <<"/">> \o cleanLocation

\* index.ts:125-148 up to the await of namespace.getFiles
listFilesToolIdx(location, root) ==
    IF ~Truthy(location) THEN Thrown("listFiles: 'location' is required")
    ELSE Listing(IF Truthy(root) THEN validateLocationIdx(location, root) ELSE location)

\* the listFilesTool of the running build
ListFilesOf(v, location, root) ==
    IF v = "upd" THEN listFilesTool(location, root)
    ELSE listFilesToolIdx(location, root)


\* ------------------------------------------------------------------ requests

\* program constant: `round < 20` (part_004:593, index.ts:431)
MaxRounds == 20

\* most tool calls in one LLM response when one request runs alone
MaxCalls == 2
\* number of LLM responses that may carry tool calls, per request, when two
\* requests run concurrently
ConcTurns == 1
\* number of LLM responses that may carry tool calls when the files read are
\* followed
ReadTurns == 1
\* number of messages a conversation may hold when a request arrives
MaxStored == 6
\* numeric arguments are tried from -MaxTwice/2 to MaxTwice/2 in steps of 1/2
MaxTwice == 3
\* stored files have up to MaxSize bytes
MaxSize == 3
MaxPool == 2
MaxClock == 2
MaxPings == 1
MaxPosts == 2

MaxSent == 2

Reqs == {1, 2}

\* the root saved for the upload that request r names
Root(r) ==
    IF r = 1 THEN <<"CodeZips", "/", "abc123", "/", "myapp">>
    ELSE <<"CodeZips", "/", "def456", "/", "other">>

OUTSIDE == <<"/", "etc">>

\* a file name is the sequence of its words and dots
MainTs == <<"main", ".", "ts">>
UtilTs == <<"util", ".", "ts">>
LogoPng == <<"logo", ".", "png">>

\* file names the LLM may pass to readFileText in a run: isProbablyText holds
\* of the first set only
TextFiles == {MainTs, UtilTs}

OtherFiles == {LogoPng}

\* part_004:50-84: the allow-list of extensions
TEXT_EXTS ==
    {<<".", e>> : e \in {"ts", "tsx", "js", "jsx", "mjs", "cjs", "json", "md", "mdx",
                         "yml", "yaml", "toml", "env", "gitignore", "dockerignore",
                         "txt", "svelte", "astro", "css", "scss", "less", "html",
                         "htm", "sql", "py", "java", "go", "rs", "kt", "c", "h",
                         "cpp", "hpp"}}

\* name.split("."): the parts between the dots
RECURSIVE SplitDot(_)
SplitDot(name) ==
    IF name = <<>> THEN << <<>> >>
    ELSE LET rest == SplitDot(Tail(name))
         IN  IF Head(name) = "." THEN << <<>> >> \o rest
             ELSE << <<Head(name)>> \o Head(rest) >> \o Tail(rest)

\* toLowerCase() of one word
LowerWord(w) ==
    CASE w = "TS" -> "ts"
      [] w = "MD" -> "md"
      [] w = "A" -> "a"
      [] OTHER -> w

toLowerCase(s) == [i \in 1..Len(s) |-> LowerWord(s[i])]

\* part_004:86-91
isProbablyTextAlways(name) == TRUE

isProbablyText(name) ==
    LET parts == SplitDot(name)
    IN  IF Len(parts) < 2 THEN FALSE
        ELSE <<".">> \o toLowerCase(parts[Len(parts)]) \in TEXT_EXTS

NONE == [name |-> "none", location |-> NULL, root |-> NULL]

\* one stream event: its name and the status field of its payload
E(name, status) == [event |-> name, status |-> status]

Progress == E("progress", "processing")
ErrorEv == E("error", "error")

\* one entry of the LLM context (`history`)
H(role, kind, name, args, response) ==
    [role |-> role, kind |-> kind, name |-> name, args |-> args, response |-> response]

Text(role, name) == H(role, "text", name, NULL, "")

Call(name, args) == [name |-> name, args |-> args]

\* the tool calls the LLM may request on behalf of request r, reading only
\* files out of `files`
CallSet(r, files) ==
    {Call("listFiles", l) : l \in {Root(r), OUTSIDE, <<>>}}
    \cup {Call(n, NULL) : n \in {"getDownloadUrl", "updateFile", "findInTree", "bogusTool"}}
    \cup {Call("readFileText", <<f>>) : f \in files}

\* the files named by the readFileText calls of a response
FilesOf(calls) ==
    {calls[i].args[1] : i \in {j \in 1..Len(calls) : calls[j].name = "readFileText"}}

\* the functionCalls of one LLM response: at most w calls, no file read twice
LlmCalls(r, w, files) ==
    {calls \in UNION {[1..k -> CallSet(r, files)] : k \in 0..w} :
        \A i, j \in 1..Len(calls) :
            (i # j /\ calls[i].name = "readFileText") => calls[i] # calls[j]}

\* one res.write on the response stream: the event: line or the data: line
\* of event e, or a keep-alive comment
Line(kind, e) == [line |-> kind, of |-> e]

PingLine == Line("ping", E("", ""))

\* part_004:355-356 / index.ts:244-245: the two writes of each send(), in
\* the order of the calls
WireLines(es) ==
    [k \in 1..(2 * Len(es)) |->
        IF k % 2 = 1 THEN Line("event", es[(k + 1) \div 2]) ELSE Line("data", es[k \div 2])]

\* part_004:353-357: send() writes to the response; once the client is gone
\* the writes are dropped
Ev(s, es) ==
    IF s.connected
    THEN [s EXCEPT !.events = @ \o es, !.wire = @ \o WireLines(es)]
    ELSE s

\* response.text after trim(): whether it matches the refusal pattern of
\* part_004:695 and how long it is.  A text that matches is at least as long
\* as the shortest pattern.
FinalTexts ==
    {t \in [matches : BOOLEAN, length : {0, 19, 20}] : t.matches => t.length > 0}

\* no final response yet
NoText == [matches |-> FALSE, length |-> -1]

\* the message of analysis_result: the LLM's text, or the fallback listing
\* `files`, or the fallback with the no-files guidance; index.ts wraps it in
\* a heading and a completion line
Message(kind, text, files, wrapped) ==
    [kind |-> kind, text |-> text, files |-> files, wrapped |-> wrapped]

NoMessage == Message("none", NoText, <<>>, FALSE)

\* a request that has not arrived (pc "idle") or never will (pc "absent").
\* history and events hold what was appended since the last LLM invocation:
\* the context already sent to the LLM, and the events already written when
\* it was sent, are not read again by the handler.
\* files: the files the LLM has not asked to read yet.
\* userInsert: how the insert of the user message ended, "none" before it.
\* connected: the client still reads the response.
\* io: the requests made by the readFileText call that settled last.
\* wire: what was written to the response since the last LLM invocation.
NewReq(pc, faults, budget, width, convs, files) ==
    [pc |-> pc, rootLocation |-> UNSET, hasConv |-> FALSE, priorTurns |-> <<>>,
     calls |-> <<>>, idx |-> 0, round |-> 0, llmCalls |-> 0, seeded |-> FALSE,
     history |-> <<>>, events |-> <<>>, inflight |-> NONE, ends |-> 0,
     gatheredTexts |-> <<>>, finalText |-> NoText, markdownResponse |-> NoMessage,
     userInsert |-> "none", connected |-> TRUE, io |-> <<>>, wire |-> <<>>,
     faults |-> faults, budget |-> budget, width |-> width, convs |-> convs,
     files |-> files]

\* the handler of request r moves to s; g is the module-level root after the
\* handler's own assignments.  part_004:753-757 / index.ts:589-593: whenever
\* the handler leaves its try block the finally block resets the root.
Commit(r, s, g) ==
    /\ req' = [req EXCEPT ![r] = s]
    /\ ORIGINAL_ROOT_LOCATION' = IF s.pc = "closed" THEN NULL ELSE g

\* res.end() followed by the finally block
End(s) == [s EXCEPT !.pc = "closed", !.ends = @ + 1, !.inflight = NONE]

\* part_004:749-752 / index.ts:585-588, the outer catch
OuterCatch(s) ==
    End(Ev(s, <<ErrorEv, E("finished", "failed")>>))

\* part_004:747-748 / index.ts:583-584
Finish(s) == End(Ev(s, <<E("finished", "success")>>))

\* part_004:695 / index.ts:526
Unhelpful(finalText) == finalText.matches \/ finalText.length < 20

\* part_004:694-709 / index.ts:525-545: the message for the final text
ComposeVerbatim(v, finalText, gatheredTexts) ==
    Message("text", finalText, <<>>, v = "idx")

Compose(v, finalText, gatheredTexts) ==
    IF Unhelpful(finalText)
    THEN IF gatheredTexts # <<>>
         THEN Message("fallback", NoText, gatheredTexts, v = "idx")
         ELSE Message("guidance", NoText, <<>>, v = "idx")
    ELSE Message("text", finalText, <<>>, v = "idx")

\* part_004:693-745 / index.ts:524-581 up to the await of the insert
AnswerSummaryFirst(v, s, text) ==
    LET a == [Ev(s, <<E("review_summary", ""), E("analysis_result", "")>>) EXCEPT
                 !.finalText = text,
                 !.markdownResponse = Compose(v, text, s.gatheredTexts)]
    IN  IF a.hasConv THEN [a EXCEPT !.pc = "saveAssistant"] ELSE Finish(a)

Answer(v, s, text) ==
    LET a == [Ev(s, <<E("analysis_result", ""), E("review_summary", "")>>) EXCEPT
                 !.finalText = text,
                 !.markdownResponse = Compose(v, text, s.gatheredTexts)]
    IN  IF a.hasConv THEN [a EXCEPT !.pc = "saveAssistant"] ELSE Finish(a)

\* part_004:593-600 / index.ts:431-438, the head of the round loop for the
\* response whose functionCalls are `calls`
EnterLoopOneMore(v, s, calls, text) ==
    IF s.round < MaxRounds + 1
    THEN IF calls = <<>>
         THEN Answer(v, Ev(s, <<Progress, Progress>>), text)
         ELSE [Ev(s, <<Progress>>) EXCEPT !.pc = "dispatch", !.calls = calls, !.idx = 1]
    ELSE Answer(v, [s EXCEPT !.calls = calls, !.idx = 0], text)

EnterLoop(v, s, calls, text) ==
    IF s.round < MaxRounds
    THEN IF calls = <<>>
         THEN Answer(v, Ev(s, <<Progress, Progress>>), text)
         ELSE [Ev(s, <<Progress>>) EXCEPT !.pc = "dispatch", !.calls = calls, !.idx = 1]
    ELSE Answer(v, [s EXCEPT !.calls = calls, !.idx = 0], text)


\* ------------------------------------------------------------------ argument values

\* a value of args.limit or args.page: undefined, a value Number() turns into
\* NaN, an infinite number, or the finite number twice/2
Undefined == [kind |-> "undefined", twice |-> 0]
NotANumber == [kind |-> "NaN", twice |-> 0]
Infinite == [kind |-> "Infinity", twice |-> 0]
Num(twice) == [kind |-> "number", twice |-> twice]

Min(a, b) == IF a <= b THEN a ELSE b

\* ------------------------------------------------------------------ readFileText

\* part_004:157: maxBytes = 512 * 1024 when the argument is undefined
DefaultMaxBytes == 524288

\* the names tried: allowed and other extensions, upper case, several dots,
\* no extension, a trailing dot, a leading dot
FileNames ==
    {MainTs, LogoPng, <<"README", ".", "MD">>, <<"archive", ".", "ts", ".", "gz">>,
     <<"Makefile">>, <<"notes", ".">>, <<".", "env">>}

\* the values of args.maxBytes tried
ByteArgs ==
    {Undefined, NotANumber, Infinite} \cup {Num(k) : k \in (-MaxTwice)..(2 * MaxSize + 2)}

\* how the storage and the download answer one call
ReadEnvs ==
    [url : {"url", "none", "throws"}, fetch : {"ok", "notOk", "throws"}, disk : BOOLEAN]

\* the integer a typed-array index is converted to: truncation towards zero
ToInteger(twice) == IF twice >= 0 THEN twice \div 2 ELSE -((-twice) \div 2)

Max(a, b) == IF a >= b THEN a ELSE b

\* part_004:171: buf.subarray(0, Math.min(buf.length, maxBytes)).length; a
\* negative end counts from the end of the buffer, NaN is 0
SliceLength(len, maxBytes) ==
    CASE maxBytes.kind = "NaN" -> 0
      [] maxBytes.kind = "Infinity" -> len
      [] maxBytes.kind = "undefined" -> Min(len, DefaultMaxBytes)
      [] OTHER ->
            LET end == ToInteger(Min(2 * len, maxBytes.twice))
            IN  IF end < 0 THEN Max(len + end, 0) ELSE Min(end, len)

\* what one call of readFileTextTool returns or throws, and the requests it
\* made on the way
ReadOut(kind, error, bytes, truncated, effects) ==
    [kind |-> kind, error |-> error, bytes |-> bytes, truncated |-> truncated,
     effects |-> effects]

\* part_004:156-161: what readFileTextTool does before its first await
ReadStarts(args) ==
    IF ~args.fileId THEN "throws"
    ELSE IF ~isProbablyText(args.name) THEN "skipped"
    ELSE "getDownloadUrl"

\* part_004:156-186 / index.ts readFileTextTool; size: the length of the
\* stored file
readFileTextTool(args, size, env) ==
    LET bytes == SliceLength(size, args.maxBytes)
    IN  CASE ReadStarts(args) = "throws" ->
                ReadOut("thrown", "fileId is required", 0, FALSE, <<>>)
          [] ReadStarts(args) = "skipped" ->
                ReadOut("skipped", "", 0, FALSE, <<>>)
          [] OTHER ->
                IF env.url = "throws"
                THEN ReadOut("thrown", "getDownloadUrl failed", 0, FALSE, <<"getDownloadUrl">>)
                ELSE IF env.url = "none"
                THEN ReadOut("thrown", "Could not get download URL", 0, FALSE,
                             <<"getDownloadUrl">>)
                ELSE IF env.fetch = "throws"
                THEN ReadOut("thrown", "fetch failed", 0, FALSE,
                             <<"getDownloadUrl", "fetch", "rm">>)
                ELSE IF env.fetch = "notOk"
                THEN ReadOut("thrown", "Download failed", 0, FALSE,
                             <<"getDownloadUrl", "fetch", "rm">>)
                ELSE IF ~env.disk
                THEN ReadOut("thrown", "writeFile failed", 0, FALSE,
                             <<"getDownloadUrl", "fetch", "writeFile", "rm">>)
                ELSE ReadOut("text", "", bytes, size > bytes,
                             <<"getDownloadUrl", "fetch", "writeFile", "readFile", "rm">>)

NoRead == ReadOut("none", "", 0, FALSE, <<>>)

\* the arguments of a readFileText call of a run: the LLM passes the fileId
\* and the name it got from a listing, and no maxBytes
ReadArgsOf(call) == [fileId |-> TRUE, name |-> call.args[1], maxBytes |-> Undefined]

\* how the storage may answer a read of request s: as it should, or with the
\* first thing that goes wrong
ReadOutcomes(s) ==
    IF s.faults
    THEN {e \in ReadEnvs : \/ e.fetch = "ok" /\ e.disk
                           \/ e.url = "url" /\ e.disk /\ e.fetch # "ok"
                           \/ e.url = "url" /\ e.fetch = "ok"}
    ELSE {[url |-> "url", fetch |-> "ok", disk |-> TRUE]}

\* ------------------------------------------------------------------ updateFile

\* part_004:201: maxBytes: 2 * 1024 * 1024 for the read of the current content
UpdateMaxBytes == 2097152

Whitespace == {" ", "\n"}

\* String.prototype.trim() of a text of words, blanks and line ends
TrimText(s) == DropTrail(DropLead(s, Whitespace), Whitespace)

\* "fence" stands for three backquotes; the words [a-zA-Z0-9_-]* that may
\* follow an opening fence
LangWords == {"ts"}

\* part_004:238: replace(/^```[a-zA-Z0-9_-]*\n/, "")
StripOpenFence(s) ==
    LET rest == DropLead(Tail(s), LangWords)
    IN  IF rest # <<>> /\ Head(rest) = "\n" THEN Tail(rest) ELSE s

\* part_004:238: replace(/\n```\s*$/, "")
StripCloseFence(s) ==
    LET u == DropTrail(s, Whitespace)
    IN  IF EndsWith(u, <<"\n", "fence">>) THEN SubSeq(u, 1, Len(u) - 2) ELSE s

\* part_004:235-239: the body that is uploaded
UpdatedBodyKeepsFence(text) == TrimText(text)

UpdatedBody(text) ==
    LET t == TrimText(text)
    IN  IF StartsWith(t, <<"fence">>) THEN TrimText(StripCloseFence(StripOpenFence(t)))
        ELSE t

\* the texts the rewriting LLM may return: nothing, blanks, a body, a fenced
\* body, a fence around nothing, a fence without a body line
Rewrites ==
    {<<>>, <<" ", "\n">>, <<"x">>,
     <<"fence", "ts", "\n", "x", "\n", "fence">>,
     <<"fence", "\n", "\n", "fence", "\n">>,
     <<"fence", "ts", "\n", "fence">>}

ReadOk == [url |-> "url", fetch |-> "ok", disk |-> TRUE]

\* everything the tool awaits answers as it should
UpdateOk ==
    [read |-> ReadOk, size |-> MaxSize, llm |-> <<"x">>, throws |-> FALSE,
     delete |-> TRUE, url |-> "url", put |-> "ok"]

\* how storage, the rewriting LLM and the upload answer one call: at most one
\* of them other than as it should; size is the length of the stored file,
\* MaxSize or one byte more than the cap of the read
UpdateEnvs ==
    {[UpdateOk EXCEPT !.read = e] : e \in ReadEnvs}
    \cup {[UpdateOk EXCEPT !.size = UpdateMaxBytes + 1]}
    \cup {[UpdateOk EXCEPT !.llm = t] : t \in Rewrites}
    \cup {[UpdateOk EXCEPT !.throws = TRUE], [UpdateOk EXCEPT !.delete = FALSE]}
    \cup {[UpdateOk EXCEPT !.url = u] : u \in {"none", "throws"}}
    \cup {[UpdateOk EXCEPT !.put = p] : p \in {"notOk", "throws"}}

\* one request of the tool to storage or to the LLM
Op(op, at) == [op |-> op, at |-> at]

UpdateOut(kind, error, effects) == [kind |-> kind, error |-> error, effects |-> effects]

\* part_004:199: the read of the current content
CurrentOf(args, env) ==
    readFileTextTool([fileId |-> TRUE, name |-> args.name,
                      maxBytes |-> Num(2 * UpdateMaxBytes)],
                     env.size, env.read)

\* part_004:189-268
updateFileTool(args, env) ==
    IF ~args.fileId THEN UpdateOut("thrown", "updateFile: fileId is required", <<>>)
    ELSE IF args.name = <<>> THEN UpdateOut("thrown", "updateFile: name is required", <<>>)
    ELSE IF ~Truthy(args.location)
    THEN UpdateOut("thrown", "updateFile: location is required", <<>>)
    ELSE IF args.instructions # "text"
    THEN UpdateOut("thrown", "updateFile: 'instructions' must be a non-empty string", <<>>)
    ELSE
    LET current == CurrentOf(args, env)
        read == [i \in 1..Len(current.effects) |-> Op(current.effects[i], NULL)]
        llm == read \o <<Op("generateContent", NULL)>>
        deleted == llm \o <<Op("delete", NULL)>>
        asked == deleted \o <<Op("getUploadUrl", args.location)>>
        put == asked \o <<Op("put", args.location)>>
    IN  IF current.kind = "thrown" THEN UpdateOut("thrown", current.error, read)
        ELSE IF current.kind # "text"
        THEN UpdateOut("thrown", "updateFile: could not read current file text", read)
        ELSE IF env.throws THEN UpdateOut("thrown", "generateContent failed", llm)
        ELSE IF UpdatedBody(env.llm) = <<>>
        THEN UpdateOut("thrown", "updateFile: empty updated content from model", llm)
        ELSE IF ~env.delete THEN UpdateOut("thrown", "delete failed", deleted)
        ELSE IF env.url = "throws" THEN UpdateOut("thrown", "getUploadUrl failed", asked)
        ELSE IF env.url = "none"
        THEN UpdateOut("thrown", "updateFile: failed to get upload URL", asked)
        ELSE IF env.put = "throws" THEN UpdateOut("thrown", "fetch failed", put)
        ELSE IF env.put = "notOk" THEN UpdateOut("thrown", "updateFile: upload failed", put)
        ELSE UpdateOut("updated", "", put)

\* part_004:247-262: what the storage holds for the file after the call: the
\* original while file.delete() has not succeeded, nothing between the
\* delete and a successful upload, the rewritten body after it
StoredAfter(out) ==
    IF \A i \in 1..Len(out.effects) : out.effects[i].op # "delete" THEN "original"
    ELSE IF out.error = "delete failed" THEN "original"
    ELSE IF out.kind = "updated" THEN "rewritten"
    ELSE "missing"

\* ------------------------------------------------------------------ dispatch

\* the *_started event of a tool (part_004:609,616,622,651)
StartedEventAsProgress(name) == E("progress", "")

StartedEvent(name) ==
    CASE name = "listFiles" -> E("directory_scan_started", "")
      [] name = "getDownloadUrl" -> E("file_access_started", "")
      [] name = "readFileText" -> E("file_analysis_started", "")
      [] OTHER -> E("file_update_started", "")

\* the *_complete event of a tool (part_004:614,620,636,655)
CompleteEvent(name) ==
    CASE name = "listFiles" -> E("directory_scan_complete", "")
      [] name = "getDownloadUrl" -> E("file_access_complete", "")
      [] name = "readFileText" -> E("file_analysis_complete", "")
      [] OTHER -> E("file_update_complete", "")

\* the tools a build dispatches to an executor that awaits storage or the LLM
\* (part_004:608-655, index.ts:446-481)
AwaitedTools(v) ==
    IF v = "upd" THEN {"listFiles", "getDownloadUrl", "readFileText", "updateFile"}
    ELSE {"listFiles", "getDownloadUrl", "readFileText"}

\* part_004:674-676 / index.ts:505-507: feed the result back
PushPair(s, call, response) ==
    [s EXCEPT !.history = @ \o <<H("model", "functionCall", call.name, call.args, ""),
                                 H("tool", "functionResponse", call.name, NULL, response)>>]

\* part_004:602,677-680 / index.ts:440,508-511: the next call of the round, or,
\* after the last one, on to the next LLM invocation
AfterCallSkipsRest(s) ==
    [Ev(s, <<Progress>>) EXCEPT !.pc = "invokeRound", !.idx = @ + 1, !.inflight = NONE]

AfterCall(s) ==
    IF s.idx < Len(s.calls)
    THEN [s EXCEPT !.pc = "dispatch", !.idx = @ + 1, !.inflight = NONE]
    ELSE [Ev(s, <<Progress>>) EXCEPT !.pc = "invokeRound", !.idx = @ + 1, !.inflight = NONE]

\* part_004:660-672 / index.ts:492-503: the catch around one call
CatchRethrows(s, call, message) == OuterCatch(s)

CatchToolError(s, call, message) ==
    AfterCall(PushPair(Ev(s, <<ErrorEv>>), call, message))

\* part_004:602-659 / index.ts:440-491: call number s.idx of the round, up to
\* the first await of its executor (or to its end when it awaits nothing)
DispatchCall(v, s, root) ==
    LET call == s.calls[s.idx]
        name == call.name
    IN  IF name = "listFiles"
        THEN LET out == ListFilesOf(v, call.args, root)
                 st == Ev(s, <<StartedEvent(name)>>)
             IN  IF out.thrown THEN CatchToolError(st, call, out.error)
                 ELSE [st EXCEPT !.pc = "toolWait",
                                 !.inflight = [name |-> name, location |-> out.location,
                                               root |-> root]]
        ELSE IF name \in AwaitedTools(v)
        THEN [Ev(s, <<StartedEvent(name)>>) EXCEPT
                 !.pc = "toolWait",
                 !.inflight = [name |-> name, location |-> NULL, root |-> NULL]]
        ELSE IF name = "findInTree"
        THEN IF v = "upd"
             THEN AfterCall(PushPair(Ev(s, <<E("progress", ""), E("review_summary", "")>>),
                                     call, "undefined"))
             ELSE CatchToolError(Ev(s, <<E("progress", "")>>), call, "TypeError")
        ELSE AfterCall(PushPair(Ev(s, <<E("operation_error", "")>>), call, "unknown_tool"))

\* the executor's await has settled: part_004:611-655 / index.ts:449-481 after
\* the await, or the catch
SettleCall(s, ok) ==
    LET call == s.calls[s.idx]
        \* part_004:625-633: a readFileText result that carries text is kept
        kept == IF call.name = "readFileText" /\ isProbablyText(call.args[1])
                THEN [s EXCEPT !.gatheredTexts = Append(@, call.args[1])]
                ELSE s
    IN  IF ok THEN AfterCall(PushPair(Ev(kept, <<CompleteEvent(call.name)>>), call, "ok"))
        ELSE CatchToolError(s, call, "execution failed")


\* part_004:650-672: the await of updateFileTool has settled with `out`
SettleUpdate(s, out) ==
    IF out.kind = "thrown" THEN CatchToolError(s, s.calls[s.idx], out.error)
    ELSE SettleCall(s, TRUE)

\* the requests of a read, as requests of a call
IoOf(effects) == [i \in 1..Len(effects) |-> Op(effects[i], NULL)]

\* ------------------------------------------------------------------ the handler

\* a row of chat_messages (schema.ts:21-29); messages holds the rows in the
\* order of createdAt
Row(conv, role, content) == [conv |-> conv, role |-> role, content |-> content]

\* part_004:451: rows.map(r => ({role: ..., content: r.content}))
TurnsOf(rows) ==
    [i \in 1..Len(rows) |->
        [role |-> IF rows[i].role = "assistant" THEN "assistant" ELSE "user",
         content |-> rows[i].content]]

\* part_004:451: .slice(-5)
LastFiveFromStart(rows) ==
    IF Len(rows) <= 5 THEN rows ELSE SubSeq(rows, 1, 5)

LastFive(rows) ==
    IF Len(rows) <= 5 THEN rows ELSE SubSeq(rows, Len(rows) - 4, Len(rows))

\* part_004:442-455 / index.ts:296-309 lead to the select, or, without a
\* conversation id, part_004:471-474 to mkdir
PrimingSkipsStore(s) == [s EXCEPT !.pc = "mkdir"]

Priming(s) ==
    IF s.hasConv THEN [s EXCEPT !.pc = "loadHistory"] ELSE [s EXCEPT !.pc = "mkdir"]

\* part_004:430: the value assigned to the module-level root
RootToAssign(rootLocation) ==
    IF Truthy(rootLocation) /\ ~isUnknownPath(rootLocation) THEN rootLocation ELSE NULL

\* part_004:433-438: hard-fail without a real root, else go on to priming
RootCheck(s, g) ==
    IF ~hasRealRoot(g)
    THEN End(Ev(s, <<ErrorEv, E("finished", "failed")>>))
    ELSE Priming(s)

\* part_004:345-396 / index.ts:234-288 up to the await of the first query
Arrive(r) ==
    /\ req[r].pc = "idle"
    /\ \E valid \in BOOLEAN, conv \in req[r].convs :
        LET s0 == Ev(req[r], <<E("start", "started")>>)
            s1 == IF variant = "idx" THEN Ev(s0, <<Progress>>) ELSE s0
            s == IF ~valid
                 THEN End(Ev(s0, <<ErrorEv, E("done", "failed")>>))
                 ELSE IF ~hasKey
                 THEN IF variant = "idx"
                      THEN End(Ev(s1, <<ErrorEv, E("done", "failed")>>))
                      ELSE End(Ev(s1, <<E("done", "failed")>>))
                 ELSE [Ev(s1, <<Progress>>) EXCEPT !.pc = "loadStructure", !.hasConv = conv]
        IN  Commit(r, s, ORIGINAL_ROOT_LOCATION)
    /\ UNCHANGED <<variant, hasKey, messages, probe>>

\* the outcomes of the first query: it throws, finds no row, or finds a row
\* whose folder_structure.rootLocation is the saved root, the sentinel or absent
StructureResults(s, r) ==
    {"none", "found"} \cup (IF s.faults THEN {"throw"} ELSE {})

JsonRoots(r) == {Root(r), UNKNOWN, NULL}

\* part_004:388-428 after the first query / index.ts:280-294 and on to priming
LoadStructure(r) ==
    /\ req[r].pc = "loadStructure"
    /\ \E res \in StructureResults(req[r], r), stored \in JsonRoots(r) :
        LET s0 == Ev(req[r], <<IF res = "throw" THEN ErrorEv
                               ELSE IF res = "found" THEN E("folder_structure", "found")
                               ELSE E("folder_structure", "not_found")>>)
            jsonRoot == IF res = "found" /\ Truthy(stored) THEN stored ELSE NULL
        IN  /\ res # "found" => stored = NULL
            /\ IF variant = "upd"
               THEN IF Truthy(jsonRoot) /\ ~isUnknownPath(jsonRoot)
                    THEN LET s == [s0 EXCEPT !.rootLocation = jsonRoot]
                             g == RootToAssign(s.rootLocation)
                         IN  Commit(r, RootCheck(s, g), g)
                    ELSE Commit(r, [s0 EXCEPT !.pc = "resolveRoot", !.rootLocation = NULL],
                                ORIGINAL_ROOT_LOCATION)
               ELSE LET rootLocation == IF Truthy(jsonRoot) THEN jsonRoot ELSE UNKNOWN
                        g == IF rootLocation # UNKNOWN THEN rootLocation ELSE NULL
                    IN  Commit(r, Priming([s0 EXCEPT !.rootLocation = rootLocation]), g)
    /\ UNCHANGED <<variant, hasKey, messages, probe>>

\* part_004:417-438 after the fallback query
ResolveRoot(r) ==
    /\ req[r].pc = "resolveRoot"
    /\ \E dbRoot \in {Root(r), UNKNOWN, NULL}, thrown \in {FALSE, req[r].faults} :
        LET s == IF thrown THEN Ev([req[r] EXCEPT !.rootLocation = NULL], <<ErrorEv>>)
                 ELSE [req[r] EXCEPT !.rootLocation =
                          IF Truthy(dbRoot) /\ ~isUnknownPath(dbRoot) THEN dbRoot ELSE NULL]
            g == RootToAssign(s.rootLocation)
        IN  /\ thrown => dbRoot = NULL
            /\ Commit(r, RootCheck(s, g), g)
    /\ UNCHANGED <<variant, hasKey, messages, probe>>

\* the rows of chat_messages of request r's conversation, oldest first
RowsOf(r) == SelectSeq(messages, LAMBDA m : m.conv = r)

\* part_004:446-457 / index.ts:300-311 after the select, up to the insert
LoadHistory(r) ==
    /\ req[r].pc = "loadHistory"
    /\ \E thrown \in {FALSE, req[r].faults} :
        LET rows == RowsOf(r)
            s == IF thrown THEN Ev(req[r], <<ErrorEv>>)
                 ELSE LET p == [req[r] EXCEPT !.priorTurns = LastFive(TurnsOf(rows))]
                      IN  IF Len(rows) > 0 THEN Ev(p, <<E("history_loaded", "")>>) ELSE p
        IN  Commit(r, [s EXCEPT !.pc = "saveUser"], ORIGINAL_ROOT_LOCATION)
    /\ UNCHANGED <<variant, hasKey, messages, probe>>

\* part_004:457-474 / index.ts:311-328 after the insert of the user message
SaveUser(r) ==
    /\ req[r].pc = "saveUser"
    /\ \E thrown \in {FALSE, req[r].faults} :
        /\ messages' = IF thrown THEN messages
                       ELSE Append(messages, Row(r, "user", "message"))
        /\ Commit(r, [Ev(req[r], <<IF thrown THEN ErrorEv ELSE E("message_saved", "user")>>)
                         EXCEPT !.pc = "mkdir",
                                !.userInsert = IF thrown THEN "failed" ELSE "stored"],
                  ORIGINAL_ROOT_LOCATION)
    /\ UNCHANGED <<variant, hasKey, probe>>

\* part_004:532-555 / index.ts:385-394: the LLM context before the first call
InitialHistory(v, priorTurns) ==
    <<Text("user", "sysPrompt"), Text("user", "fsSummary")>>
    \o [i \in 1..Len(priorTurns) |->
           Text(IF priorTurns[i].role = "user" THEN "user" ELSE "model",
                priorTurns[i].content)]
    \o <<Text("user", "message")>>
    \o (IF v = "upd" THEN <<Text("user", "editing")>> ELSE <<>>)

\* part_004:474-557 / index.ts:328-396 after mkdir, up to the first LLM call
Mkdir(r) ==
    /\ req[r].pc = "mkdir"
    /\ \E thrown \in {FALSE, req[r].faults} :
        LET s == IF thrown THEN OuterCatch(req[r])
                 ELSE [Ev(req[r], <<Progress>>) EXCEPT
                          !.pc = "invokeFirst",
                          !.history = InitialHistory(variant, req[r].priorTurns)]
        IN  Commit(r, s, ORIGINAL_ROOT_LOCATION)
    /\ UNCHANGED <<variant, hasKey, messages, probe>>


\* what the environment may do to an await of request s: settle it (FALSE) or,
\* when failures are injected, make it throw (TRUE)
Throws(s) == {FALSE, s.faults}

\* the functionCalls the LLM may return to request r
Responses(r) ==
    IF req[r].budget = 0 THEN {<<>>} ELSE LlmCalls(r, req[r].width, req[r].files)

\* the pc at which each ai.models.generateContent call is made, and the pc at
\* which its response is awaited
AwaitOf(pc) ==
    CASE pc = "invokeFirst" -> "llmFirst"
      [] pc = "invokeSeed" -> "llmSeed"
      [] OTHER -> "llmRound"

\* part_004:559,578,681 / index.ts:398,417,512: generateContent is called with
\* the whole of `history`; the `calls` of the round that ends go out of scope
InvokeLlm(r) ==
    /\ req[r].pc \in {"invokeFirst", "invokeSeed", "invokeRound"}
    /\ Commit(r, [req[r] EXCEPT !.pc = AwaitOf(@), !.llmCalls = @ + 1,
                                !.history = <<>>, !.events = <<>>, !.wire = <<>>,
                                !.calls = <<>>, !.idx = 0, !.io = <<>>],
              ORIGINAL_ROOT_LOCATION)
    /\ UNCHANGED <<variant, hasKey, messages, probe>>

\* an LLM response with functionCalls `calls` has arrived
Answered(s, calls) ==
    [s EXCEPT !.budget = IF @ > 0 /\ calls # <<>> THEN @ - 1 ELSE @,
              !.files = @ \ FilesOf(calls)]

\* the text of a response that is not the final one is not read
DefaultText == [matches |-> FALSE, length |-> 20]

TextRead(s, text) == s.markdownResponse = NoMessage => text = DefaultText

\* part_004:571 / index.ts:410: the condition of seeding
SeedConditionNever(v, calls, root) == FALSE

SeedCondition(v, calls, root) ==
    calls = <<>> /\ (IF v = "upd" THEN hasRealRoot(root) ELSE Truthy(root))

\* part_004:559-593 / index.ts:398-431 after the first LLM call: seed with a
\* root listing, or enter the round loop
LlmFirst(r) ==
    /\ req[r].pc = "llmFirst"
    /\ \E thrown \in Throws(req[r]), calls \in Responses(r), text \in FinalTexts :
        LET root == ORIGINAL_ROOT_LOCATION
            s1 == Answered(req[r], calls)
            s2 == Ev(s1, <<Progress>>)
            out == ListFilesOf(variant, root, root)
            s == IF thrown THEN OuterCatch(req[r])
                 ELSE IF SeedCondition(variant, calls, root)
                 THEN IF out.thrown THEN OuterCatch(s2)
                      ELSE [s2 EXCEPT !.pc = "seedList", !.seeded = TRUE,
                                      !.inflight = [name |-> "listFiles",
                                                    location |-> out.location,
                                                    root |-> root]]
                 ELSE EnterLoop(variant, s1, calls, text)
        IN  /\ thrown => calls = <<>>
            /\ TextRead(s, text)
            /\ Commit(r, s, ORIGINAL_ROOT_LOCATION)
    /\ UNCHANGED <<variant, hasKey, messages, probe>>

\* part_004:575-587 / index.ts:414-426 after the seeded listing
SeedList(r) ==
    /\ req[r].pc = "seedList"
    /\ \E thrown \in Throws(req[r]) :
        LET s == IF thrown THEN OuterCatch(req[r])
                 ELSE [PushPair(req[r], Call("listFiles", req[r].inflight.root), "ok")
                          EXCEPT !.pc = "invokeSeed", !.inflight = NONE]
        IN  Commit(r, s, ORIGINAL_ROOT_LOCATION)
    /\ UNCHANGED <<variant, hasKey, messages, probe>>

\* part_004:578-600 / index.ts:417-438 after the LLM call that follows seeding
LlmSeed(r) ==
    /\ req[r].pc = "llmSeed"
    /\ \E thrown \in Throws(req[r]), calls \in Responses(r), text \in FinalTexts :
        LET s == IF thrown THEN OuterCatch(req[r])
                 ELSE EnterLoop(variant, Answered(req[r], calls), calls, text)
        IN  /\ thrown => calls = <<>>
            /\ TextRead(s, text)
            /\ Commit(r, s, ORIGINAL_ROOT_LOCATION)
    /\ UNCHANGED <<variant, hasKey, messages, probe>>

\* part_004:602-659 / index.ts:440-491: start the next call of the round
Dispatch(r) ==
    /\ req[r].pc = "dispatch"
    /\ Commit(r, DispatchCall(variant, [req[r] EXCEPT !.io = <<>>], ORIGINAL_ROOT_LOCATION),
              ORIGINAL_ROOT_LOCATION)
    /\ UNCHANGED <<variant, hasKey, messages, probe>>

\* the await of the executor of the call in flight settles
ToolDone(r) ==
    /\ req[r].pc = "toolWait"
    /\ LET call == req[r].calls[req[r].idx]
       IN  IF call.name = "readFileText"
           THEN \E env \in ReadOutcomes(req[r]) :
                   LET out == readFileTextTool(ReadArgsOf(call), MaxSize, env)
                   IN  Commit(r, [SettleCall(req[r], out.kind # "thrown") EXCEPT
                                     !.io = IoOf(out.effects)],
                              ORIGINAL_ROOT_LOCATION)
           ELSE \E thrown \in Throws(req[r]) :
                   Commit(r, SettleCall(req[r], ~thrown), ORIGINAL_ROOT_LOCATION)
    /\ UNCHANGED <<variant, hasKey, messages, probe>>

\* part_004:681-691,593-600 / index.ts:512-522,431-438: the LLM call that ends
\* a round, round++, and the head of the loop
LlmRound(r) ==
    /\ req[r].pc = "llmRound"
    /\ \E thrown \in Throws(req[r]), calls \in Responses(r), text \in FinalTexts :
        LET s == IF thrown THEN OuterCatch(req[r])
                 ELSE EnterLoop(variant, [Answered(req[r], calls) EXCEPT !.round = @ + 1],
                                calls, text)
        IN  /\ thrown => calls = <<>>
            /\ TextRead(s, text)
            /\ Commit(r, s, ORIGINAL_ROOT_LOCATION)
    /\ UNCHANGED <<variant, hasKey, messages, probe>>

\* part_004:739-748 / index.ts:575-584: the insert of the assistant message
\* has settled or thrown
AssistantInsertFatal(s, thrown) ==
    IF thrown THEN OuterCatch(s) ELSE Finish(Ev(s, <<E("message_saved", "assistant")>>))

AssistantInsertDone(s, thrown) ==
    Finish(Ev(s, <<IF thrown THEN ErrorEv ELSE E("message_saved", "assistant")>>))

\* part_004:727-748 / index.ts:563-584 after the insert of the assistant message
SaveAssistant(r) ==
    /\ req[r].pc = "saveAssistant"
    /\ \E thrown \in Throws(req[r]) :
        /\ messages' = IF thrown THEN messages
                       ELSE Append(messages, Row(r, "assistant", "answer"))
        /\ Commit(r, AssistantInsertDone(req[r], thrown), ORIGINAL_ROOT_LOCATION)
    /\ UNCHANGED <<variant, hasKey, probe>>

\* the client of a running request goes away; the handler registers no
\* listener for it (part_004:345-363) and is at the same await afterwards
HangupAborts(s) == End([s EXCEPT !.connected = FALSE])

Hangup(s) == [s EXCEPT !.connected = FALSE]

Disconnect(r) ==
    /\ req[r].pc \notin {"idle", "closed", "absent"}
    /\ req[r].connected
    /\ Commit(r, Hangup(req[r]), ORIGINAL_ROOT_LOCATION)
    /\ UNCHANGED <<variant, hasKey, messages, probe>>

\* ------------------------------------------------------------------ direct calls

\* the roots the handler can install: hasRealRoot holds (part_004:430-438)
RealRoots ==
    {s \in UNION {[1..k -> Atoms] : k \in 1..MaxRootLen} : ~isUnknownPath(s)}

\* the location argument of one listFiles call: any short string, the
\* sentinel, or no string at all
Candidates == StrUpTo(MaxLen) \cup {UNKNOWN, NULL}

\* one call of listFilesTool with location probe.args under the installed root
ProbeListFiles ==
    /\ probe.state = "pending"
    /\ LET out == ListFilesOf(variant, probe.args, ORIGINAL_ROOT_LOCATION)
       IN  probe' = [probe EXCEPT !.state = IF out.thrown THEN "thrown" ELSE "listed",
                                  !.location = out.location, !.error = out.error]
    /\ UNCHANGED <<variant, hasKey, ORIGINAL_ROOT_LOCATION, req, messages>>

NoProbe == [args |-> NULL, state |-> "off", location |-> NULL, error |-> ""]

\* ------------------------------------------------------------------ specifications

Absent == NewReq("absent", FALSE, 0, 0, {FALSE}, {})

\* one request, with or without a conversation id, every failure the
\* environment can inject, LLM responses of up to MaxCalls calls in every
\* round; the runs in which the LLM reads files are those of SpecRead
Init ==
    /\ variant \in {"upd", "idx"}
    /\ hasKey \in BOOLEAN
    /\ ORIGINAL_ROOT_LOCATION = NULL
    /\ req = [r \in Reqs |-> IF r = 1 THEN NewReq("idle", TRUE, -1, MaxCalls, BOOLEAN, {})
                             ELSE Absent]
    /\ messages = <<>>
    /\ probe = NoProbe

Next ==
    \E r \in Reqs :
        \/ Arrive(r)
        \/ LoadStructure(r)
        \/ ResolveRoot(r)
        \/ LoadHistory(r)
        \/ SaveUser(r)
        \/ Mkdir(r)
        \/ InvokeLlm(r)
        \/ LlmFirst(r)
        \/ SeedList(r)
        \/ LlmSeed(r)
        \/ Dispatch(r)
        \/ ToolDone(r)
        \/ LlmRound(r)
        \/ SaveAssistant(r)

Spec == Init /\ [][Next]_vars

\* two concurrent requests for different uploads, no injected failure, one call
\* per LLM response and at most ConcTurns responses that carry a call
InitConc ==
    /\ variant \in {"upd", "idx"}
    /\ hasKey = TRUE
    /\ ORIGINAL_ROOT_LOCATION = NULL
    /\ req = [r \in Reqs |-> NewReq("idle", FALSE, ConcTurns, 1, BOOLEAN, {})]
    /\ messages = <<>>
    /\ probe = NoProbe

SpecConc == InitConc /\ [][Next]_vars

\* one request with a conversation id, every failure injected, at most
\* ReadTurns LLM responses that carry calls, every file readable once
InitRead ==
    /\ variant \in {"upd", "idx"}
    /\ hasKey = TRUE
    /\ ORIGINAL_ROOT_LOCATION = NULL
    /\ req = [r \in Reqs |->
                 IF r = 1
                 THEN NewReq("idle", TRUE, ReadTurns, MaxCalls, {TRUE},
                             TextFiles \cup OtherFiles)
                 ELSE Absent]
    /\ messages = <<>>
    /\ probe = NoProbe

SpecRead == InitRead /\ [][Next]_vars

\* the contents of the messages stored before the run, oldest first
Names == <<"m1", "m2", "m3", "m4", "m5", "m6", "m7", "m8">>

StoredRoles == {"user", "assistant"}

\* the rows a conversation may hold when a request arrives
StoredRows ==
    UNION {{[i \in 1..n |-> Row(1, role[i], Names[i])] : role \in [1..n -> StoredRoles]} :
              n \in 0..MaxStored}

\* one request on a conversation that already holds up to MaxStored messages,
\* every failure injected, at most one LLM response that carries a call
InitChat ==
    /\ variant \in {"upd", "idx"}
    /\ hasKey = TRUE
    /\ ORIGINAL_ROOT_LOCATION = NULL
    /\ req = [r \in Reqs |-> IF r = 1 THEN NewReq("idle", TRUE, 1, 1, {TRUE}, {})
                             ELSE Absent]
    /\ messages \in StoredRows
    /\ probe = NoProbe

SpecChat == InitChat /\ [][Next]_vars

\* one request with a conversation id whose client may go away at any await;
\* nothing else fails, at most one LLM response carries a call; every await
\* of the handler settles in the end
InitGone ==
    /\ variant \in {"upd", "idx"}
    /\ hasKey = TRUE
    /\ ORIGINAL_ROOT_LOCATION = NULL
    /\ req = [r \in Reqs |-> IF r = 1 THEN NewReq("idle", FALSE, 1, 1, {TRUE}, {})
                             ELSE Absent]
    /\ messages = <<>>
    /\ probe = NoProbe

NextGone == Next \/ \E r \in Reqs : Disconnect(r)

SpecGone == InitGone /\ [][NextGone]_vars /\ WF_vars(Next)

\* direct calls of listFilesTool, over every short location and root
InitPath ==
    /\ variant \in {"upd", "idx"}
    /\ hasKey = TRUE
    /\ ORIGINAL_ROOT_LOCATION \in RealRoots
    /\ req = [r \in Reqs |-> Absent]
    /\ messages = <<>>
    /\ probe \in {[args |-> l, state |-> "pending", location |-> NULL, error |-> ""] :
                     l \in Candidates}

NextPath == ProbeListFiles

SpecPath == InitPath /\ [][NextPath]_vars

\* ------------------------------------------------------------------ path semantics

\* the "/"-separated segments of a path
RECURSIVE Split(_)
Split(s) ==
    IF s = <<>> THEN << <<>> >>
    ELSE LET rest == Split(Tail(s))
         IN  IF Head(s) = "/" THEN << <<>> >> \o rest
             ELSE << <<Head(s)>> \o Head(rest) >> \o Tail(rest)

\* the segments that remain once "." and ".." are applied from left to right,
\* and how many ".." climbed above the start of the path
RECURSIVE Walk(_, _, _)
Walk(segs, stack, up) ==
    IF segs = <<>> THEN [up |-> up, segs |-> stack]
    ELSE LET seg == Head(segs)
         IN  IF seg = <<>> \/ seg = <<".">> THEN Walk(Tail(segs), stack, up)
             ELSE IF seg = <<".", ".">>
             THEN IF stack = <<>> THEN Walk(Tail(segs), stack, up + 1)
                  ELSE Walk(Tail(segs), SubSeq(stack, 1, Len(stack) - 1), up)
             ELSE Walk(Tail(segs), Append(stack, seg), up)

Resolve(path) == Walk(Split(path), <<>>, 0)

\* path denotes the root or something below it once dot segments are resolved
UnderRoot(path, root) ==
    /\ Resolve(path).up = Resolve(root).up
    /\ StartsWith(Resolve(path).segs, Resolve(root).segs)

HasParentSegment(path) == \E i \in 1..Len(Split(path)) : Split(path)[i] = <<".", ".">>

EndsWithSeparator(s) == s # <<>> /\ IsSep(s[Len(s)])

\* a root made of names only: no dot segment, no trailing separator
PlainRoot(root) ==
    /\ ~EndsWithSeparator(root)
    /\ \A i \in 1..Len(Split(root)) : Split(root)[i] \notin {<<".">>, <<".", ".">>}

\* ------------------------------------------------------------------ claims: confinement

\* C2 as stated: in part_004 the location passed to the storage listing equals
\* the root R or starts with R followed by a path separator, and a call whose
\* normalized location does not start with R throws without contacting storage.
C2_EqualsRootOrRootSeparator ==
    variant = "upd" =>
        LET R == ORIGINAL_ROOT_LOCATION
        IN  /\ probe.state = "listed" =>
                \/ probe.location = R
                \/ \E sep \in {"/", "\\"} : StartsWith(probe.location, R \o <<sep>>)
            /\ (probe.state # "pending" /\ ~isUnknownPath(probe.args)
                    /\ ~StartsWith(validateLocation(probe.args, R), R))
                => probe.state = "thrown"

\* C2: in part_004, for every location L and root R, the location passed to the
\* storage listing starts with R, and it equals R or starts with R stripped of
\* its trailing separators followed by "/" (for a root that does not end with a
\* separator: it equals R or starts with R + "/"); a call whose normalized
\* location does not start with R throws and storage is not contacted.
C2_ListedUnderRoot ==
    variant = "upd" =>
        LET R == ORIGINAL_ROOT_LOCATION
            cleanRoot == DropTrail(R, Seps)
        IN  /\ probe.state = "listed" =>
                /\ StartsWith(probe.location, R)
                /\ probe.location = R \/ StartsWith(probe.location, cleanRoot \o <<"/">>)
                /\ ~EndsWithSeparator(R) =>
                       probe.location = R \/ StartsWith(probe.location, R \o <<"/">>)
            /\ (probe.state # "pending" /\ ~isUnknownPath(probe.args)
                    /\ ~StartsWith(validateLocation(probe.args, R), R))
                => probe.state = "thrown" /\ probe.location = NULL

\* C2 happens: a location outside the root was rewritten and listed, and (in
\* another call) a normalized location that misses the root was refused
C2_Witness ==
    /\ variant = "upd"
    /\ \/ /\ probe.state = "listed"
          /\ ~StartsWith(probe.args, ORIGINAL_ROOT_LOCATION)
          /\ probe.location # probe.args
       \/ /\ probe.state = "thrown"
          /\ probe.error = "listFiles: location must start with root"

\* C3 as stated: a location with parent-directory segments is rejected, or the
\* location passed to storage still denotes a path under the root once the dot
\* segments are resolved.
C3_ParentSegmentsStayUnderRoot ==
    (probe.state = "listed" /\ HasParentSegment(probe.args)
        /\ PlainRoot(ORIGINAL_ROOT_LOCATION))
    => UnderRoot(probe.location, ORIGINAL_ROOT_LOCATION)

\* C6 as stated: in index.ts a location is passed to storage as it was given
\* only if it equals the root or starts with root + separator; a location that
\* only shares the root as a textual prefix is rewritten under the root.
C6_SiblingNotAcceptedUnchanged ==
    (variant = "idx" /\ probe.state = "listed" /\ PlainRoot(ORIGINAL_ROOT_LOCATION))
    => IF probe.location = probe.args
       THEN \/ probe.args = ORIGINAL_ROOT_LOCATION
            \/ \E sep \in {"/", "\\"} :
                  StartsWith(probe.args, ORIGINAL_ROOT_LOCATION \o <<sep>>)
       ELSE StartsWith(probe.location, ORIGINAL_ROOT_LOCATION \o <<"/">>)

\* ------------------------------------------------------------------ claims: the session root

\* the last n events of the window of request s
LastEvents(s, n) == SubSeq(s.events, Len(s.events) - n + 1, Len(s.events))

\* C1 as stated: with two concurrent requests for different roots, every
\* listFiles call made for a request whose root is resolved is validated
\* against that request's own root, whatever the other request assigns or
\* resets meanwhile.
C1_ListingValidatedAgainstOwnRoot ==
    \A r \in Reqs :
        (req[r].rootLocation = Root(r) /\ req[r].inflight.name = "listFiles")
            => req[r].inflight.root = req[r].rootLocation

\* C5: in part_004 a run for which no usable root was resolved is closed, its
\* last events are an error event and finished/failed, the stream was ended
\* once, and no LLM invocation and no tool call was made.
C5_NoRootAbortsBeforeLlm ==
    variant = "upd" =>
        \A r \in Reqs :
            (req[r].rootLocation = NULL /\ req[r].pc # "resolveRoot")
            => /\ req[r].pc = "closed"
               /\ req[r].ends = 1
               /\ Len(req[r].events) >= 2
               /\ LastEvents(req[r], 2) = <<ErrorEv, E("finished", "failed")>>
               /\ req[r].llmCalls = 0
               /\ req[r].calls = <<>> /\ req[r].inflight = NONE
               /\ req[r].history = <<>>
               /\ ORIGINAL_ROOT_LOCATION = NULL

\* C5 happens: part_004 found a saved structure without a usable root, found
\* no stored root either, and closed the run
C5_Witness ==
    /\ variant = "upd"
    /\ req[1].rootLocation = NULL /\ req[1].pc = "closed"
    /\ \E i \in 1..Len(req[1].events) : req[1].events[i] = E("folder_structure", "found")

\* C7 as stated: in index.ts a run whose root is unresolved never has a
\* listFiles call reach storage with a location that was not validated
\* against a session root.
C7_NoListingWithoutRoot ==
    variant = "idx" =>
        \A r \in Reqs :
            (req[r].rootLocation = UNKNOWN /\ req[r].inflight.name = "listFiles")
                => hasRealRoot(req[r].inflight.root)

\* ------------------------------------------------------------------ claims: the round loop

\* request s is inside a round: between the head of the loop and the LLM
\* invocation that ends the round
InRound(s) == s.pc \in {"dispatch", "toolWait", "invokeRound"}

\* the number of stream events one completed call leaves behind
EventCount(v, call) ==
    IF call.name \in AwaitedTools(v) \/ call.name = "findInTree" THEN 2 ELSE 1

\* the number of events of the window that precede those of call i
RECURSIVE EventsBefore(_, _, _)
EventsBefore(v, calls, i) ==
    IF i <= 1 THEN 1 ELSE EventsBefore(v, calls, i - 1) + EventCount(v, calls[i - 1])

\* the events of completed call i of the round
CallEvents(v, s, i) ==
    SubSeq(s.events, EventsBefore(v, s.calls, i) + 1, EventsBefore(v, s.calls, i + 1))

\* the functionResponse recorded for completed call i of the round
ResponseOf(s, i) == s.history[2 * i].response

IsFailure(response) == response \notin {"ok", "undefined"}

ErrorClass == {"error", "operation_error"}

ListOutside == Call("listFiles", OUTSIDE)

ListEmpty == Call("listFiles", <<>>)

ScanStarted == E("directory_scan_started", "")

ScanComplete == E("directory_scan_complete", "")

\* C4 as stated: with the root CodeZips/abc123/myapp resolved, listFiles("/etc")
\* does not execute: it fails, the failure is the call's result, and the call's
\* events are directory_scan_started followed by an error event.
C4_OutsideLocationRejected ==
    \A r \in Reqs :
        LET s == req[r]
        IN  (InRound(s) /\ s.rootLocation = Root(r)) =>
                /\ (s.pc = "toolWait") => s.calls[s.idx] # ListOutside
                /\ \A i \in 1..(s.idx - 1) :
                      s.calls[i] = ListOutside =>
                          /\ IsFailure(ResponseOf(s, i))
                          /\ CallEvents(variant, s, i) = <<ScanStarted, ErrorEv>>

\* C4: with the root CodeZips/abc123/myapp resolved, listFiles("/etc") is not
\* rejected: the location is rewritten to CodeZips/abc123/myapp/etc and
\* requested from storage, and the call's events are directory_scan_started
\* followed by directory_scan_complete (or by an error event when storage
\* fails).  A listFiles call that is rejected (empty location) fails with an
\* error that is the call's result, its events are directory_scan_started
\* followed by an error event without directory_scan_complete, and the run is
\* not aborted.
C4_OutsideRewrittenEmptyRejected ==
    \A r \in Reqs :
        LET s == req[r]
        IN  (InRound(s) /\ s.rootLocation = Root(r)) =>
                /\ s.ends = 0
                /\ (s.pc = "toolWait" /\ s.calls[s.idx] = ListOutside)
                       => s.inflight.location = Root(r) \o OUTSIDE
                /\ (s.pc = "toolWait") => s.calls[s.idx] # ListEmpty
                /\ \A i \in 1..(s.idx - 1) :
                      /\ s.calls[i] = ListOutside =>
                            \/ /\ ResponseOf(s, i) = "ok"
                               /\ CallEvents(variant, s, i) = <<ScanStarted, ScanComplete>>
                            \/ /\ ResponseOf(s, i) = "execution failed"
                               /\ CallEvents(variant, s, i) = <<ScanStarted, ErrorEv>>
                      /\ s.calls[i] = ListEmpty =>
                            /\ ResponseOf(s, i) \in
                                  {"listFiles: invalid 'location' (unknown/empty).",
                                   "listFiles: 'location' is required"}
                            /\ CallEvents(variant, s, i) = <<ScanStarted, ErrorEv>>

\* C4 happens: in one round listFiles("/etc") was listed under the root and a
\* listFiles call with an empty location was rejected, and the run goes on
C4_Witness ==
    /\ req[1].pc = "invokeRound" /\ req[1].rootLocation = Root(1)
    /\ req[1].calls = <<ListOutside, ListEmpty>>
    /\ ResponseOf(req[1], 1) = "ok" /\ IsFailure(ResponseOf(req[1], 2))

\* an upper bound on the handler steps a round can take
RoundSteps == 2 * MaxCalls + 2

\* an upper bound on the handler steps left when round number `round` begins
StepsFrom(round) == 2 + (20 - round) * RoundSteps

\* an upper bound on the handler steps request s can still take
Rank(s) ==
    CASE s.pc \in {"closed", "absent"} -> 0
      [] s.pc = "saveAssistant" -> 1
      [] s.pc = "llmRound" -> StepsFrom(s.round + 1) + 1
      [] s.pc = "invokeRound" -> StepsFrom(s.round + 1) + 2
      [] s.pc = "toolWait" -> StepsFrom(s.round + 1) + 2 * (Len(s.calls) - s.idx + 1) + 1
      [] s.pc = "dispatch" -> StepsFrom(s.round + 1) + 2 * (Len(s.calls) - s.idx + 1) + 2
      [] s.pc = "llmSeed" -> StepsFrom(0) + 1
      [] s.pc = "invokeSeed" -> StepsFrom(0) + 2
      [] s.pc = "seedList" -> StepsFrom(0) + 3
      [] s.pc = "llmFirst" -> StepsFrom(0) + 4
      [] s.pc = "invokeFirst" -> StepsFrom(0) + 5
      [] s.pc = "mkdir" -> StepsFrom(0) + 6
      [] s.pc = "saveUser" -> StepsFrom(0) + 7
      [] s.pc = "loadHistory" -> StepsFrom(0) + 8
      [] s.pc = "resolveRoot" -> StepsFrom(0) + 9
      [] s.pc = "loadStructure" -> StepsFrom(0) + 10
      [] OTHER -> StepsFrom(0) + 11

\* the round counter, the LLM invocations and the end of a run of request s
RoundsBounded(s) ==
    /\ s.round \in 0..20
    /\ InRound(s) => s.round < 20
    /\ s.llmCalls <= 22
    /\ ~s.seeded => s.llmCalls <= 21
    /\ s.round = 20 => s.pc \in {"saveAssistant", "closed"}
    /\ (s.pc = "closed" /\ s.llmCalls > 0) =>
           /\ s.ends = 1
           /\ s.events # <<>> /\ s.events[Len(s.events)].event = "finished"
    /\ Rank(s) >= 0

RoundInOrder(v, s) ==
    InRound(s) =>
        /\ s.calls # <<>> /\ s.idx \in 1..(Len(s.calls) + 1)
        /\ (s.pc = "invokeRound") <=> (s.idx = Len(s.calls) + 1)
        /\ Len(s.history) = 2 * (s.idx - 1)
        /\ \A i \in 1..(s.idx - 1) :
              /\ s.history[2 * i - 1] =
                     H("model", "functionCall", s.calls[i].name, s.calls[i].args, "")
              /\ s.history[2 * i].kind = "functionResponse"
              /\ s.history[2 * i].name = s.calls[i].name
        /\ Len(s.events) = EventsBefore(v, s.calls, s.idx)
                               + (IF s.pc = "dispatch" THEN 0 ELSE 1)
        /\ IF s.pc = "toolWait"
           THEN /\ s.inflight.name = s.calls[s.idx].name
                /\ s.events[Len(s.events)] = StartedEvent(s.calls[s.idx].name)
           ELSE s.inflight = NONE

\* C9: in a round the calls of the LLM response are dispatched one at a time
\* in the order returned: the context holds exactly the (functionCall,
\* functionResponse) pairs of the calls before the current one, in order, no
\* event of a later call exists, each step completes exactly the current call,
\* and the LLM is re-invoked only when the pairs of all calls are appended.
C9_AllCallsInOrder ==
    [][\A r \in Reqs :
          LET s == req[r]
              t == req'[r]
          IN  /\ RoundInOrder(variant, t)
              /\ (InRound(s) /\ t # s /\ InRound(t)) =>
                     /\ t.calls = s.calls /\ t.round = s.round
                     /\ t.idx = IF t.pc = "toolWait" THEN s.idx ELSE s.idx + 1
              /\ (s.pc # "llmRound" /\ t.pc = "llmRound") =>
                     /\ s.pc = "invokeRound"
                     /\ Len(s.history) = 2 * Len(s.calls)]_vars

\* C9 happens: a response carried two different calls and both pairs are in
\* the context when the LLM is about to be invoked again
C9_Witness ==
    /\ req[1].pc = "invokeRound"
    /\ Len(req[1].calls) = MaxCalls /\ req[1].calls[1] # req[1].calls[2]
    /\ Len(req[1].history) = 2 * MaxCalls

\* C10: a step of the round loop that dispatches or settles a call never
\* closes the run; when the call fails (an unknown tool included) the failure
\* is the response recorded for it, the last event of the call is an
\* error-class event, the next call of the round is dispatched if there is
\* one, and after the last call the LLM is invoked again.
C10_ToolFailureDoesNotEndRun ==
    [][\A r \in Reqs :
          LET s == req[r]
              t == req'[r]
          IN  /\ (s.pc \in {"dispatch", "toolWait"} /\ t # s) =>
                     /\ InRound(t) /\ t.ends = 0
                     /\ t.idx = s.idx => (s.pc = "dispatch" /\ t.pc = "toolWait")
                     /\ t.idx # s.idx =>
                            /\ t.idx = s.idx + 1
                            /\ t.pc = IF s.idx < Len(s.calls) THEN "dispatch"
                                      ELSE "invokeRound"
                            /\ t.history = s.history
                                   \o <<H("model", "functionCall", s.calls[s.idx].name,
                                          s.calls[s.idx].args, ""),
                                        H("tool", "functionResponse", s.calls[s.idx].name,
                                          NULL, ResponseOf(t, s.idx))>>
                            /\ IsFailure(ResponseOf(t, s.idx)) =>
                                   LET es == CallEvents(variant, t, s.idx)
                                   IN  es[Len(es)].event \in ErrorClass
              /\ (s.pc = "invokeRound" /\ t # s) =>
                     t.pc = "llmRound" /\ t.llmCalls = s.llmCalls + 1]_vars

\* C10 happens: the first call of a round named an unknown tool, the second
\* call of the same round was dispatched and succeeded, and the LLM is about
\* to be invoked again
C10_Witness ==
    /\ req[1].pc = "invokeRound" /\ Len(req[1].calls) = 2
    /\ req[1].calls[1].name = "bogusTool"
    /\ ResponseOf(req[1], 1) = "unknown_tool" /\ ResponseOf(req[1], 2) = "ok"


\* ------------------------------------------------------------------ claims: terminal events

\* the stream of a request whose body failed validation (part_004:369-373)
InvalidStream == <<E("start", "started"), ErrorEv, E("done", "failed")>>

\* C11 as stated: on every path a closed run ended its stream exactly once and
\* the last event written is finished with status success or failed.
C11_LastEventIsFinished ==
    \A r \in Reqs :
        req[r].pc = "closed" =>
            /\ req[r].ends = 1
            /\ req[r].events # <<>>
            /\ req[r].events[Len(req[r].events)] \in
                  {E("finished", "success"), E("finished", "failed")}

\* C12 as stated: the step that rejects an invalid body reads and writes no
\* store, calls neither storage nor the LLM, leaves the session root as it
\* was, writes exactly one error event and closes the stream.
C12_InvalidBodyNoSideEffect ==
    [][\A r \in Reqs :
          (req[r].pc = "idle" /\ req'[r].events = InvalidStream) =>
              /\ req'[r].pc = "closed" /\ req'[r].ends = 1
              /\ messages' = messages
              /\ req'[r].llmCalls = 0 /\ req'[r].inflight = NONE
              /\ ORIGINAL_ROOT_LOCATION' = ORIGINAL_ROOT_LOCATION]_vars

\* C13 as stated: without an API key a run is closed at once, before any
\* database, storage or LLM call, and its stream carries an error event.
C13_MissingKeyReported ==
    ~hasKey =>
        \A r \in Reqs :
            /\ req[r].pc \in {"idle", "closed", "absent"}
            /\ messages = <<>>
            /\ req[r].pc = "closed" =>
                  /\ req[r].llmCalls = 0 /\ req[r].inflight = NONE
                  /\ \E i \in 1..Len(req[r].events) : req[r].events[i].event = "error"


\* ------------------------------------------------------------------ claims: the answer

\* the step from s to t completed a readFileText call that returned text
ReadSucceeded(s, t) ==
    /\ s.pc = "toolWait" /\ t.idx = s.idx + 1
    /\ s.calls[s.idx].name = "readFileText"
    /\ isProbablyText(s.calls[s.idx].args[1])
    /\ ResponseOf(t, s.idx) = "ok"

\* C14: the files kept for the fallback are exactly those of the readFileText
\* calls that returned text, one entry per read in read order; and when the
\* final text is unhelpful (it matches the refusal pattern or is shorter than
\* 20 characters) the message of analysis_result is not that text: it is the
\* fallback listing the kept files, or the no-files guidance when none was
\* read (index.ts puts the same body under its heading).
C14_UnhelpfulTextReplacedByFallback ==
    [][\A r \in Reqs :
          LET s == req[r]
              t == req'[r]
          IN  /\ t.gatheredTexts =
                    IF ReadSucceeded(s, t)
                    THEN Append(s.gatheredTexts, s.calls[s.idx].args[1])
                    ELSE s.gatheredTexts
              /\ (t.markdownResponse # NoMessage /\ Unhelpful(t.finalText)) =>
                    /\ t.markdownResponse.kind # "text"
                    /\ t.markdownResponse.text # t.finalText
                    /\ t.markdownResponse.kind =
                          IF t.gatheredTexts = <<>> THEN "guidance" ELSE "fallback"
                    /\ t.markdownResponse.files = t.gatheredTexts
                    /\ t.markdownResponse.wrapped = (variant = "idx")
              /\ (t.markdownResponse # NoMessage /\ ~Unhelpful(t.finalText)) =>
                    t.markdownResponse.text = t.finalText]_vars

\* C14 happens: two files were read in one round, util.ts before main.ts, the
\* final text matched the refusal pattern, and the message lists both in order
C14_Witness ==
    /\ req[1].pc = "closed" /\ req[1].finalText.matches
    /\ req[1].gatheredTexts = <<UtilTs, MainTs>>
    /\ req[1].markdownResponse.kind = "fallback"
    /\ req[1].markdownResponse.files = <<UtilTs, MainTs>>


\* ------------------------------------------------------------------ claims: seeding

\* the root counts as set for seeding (part_004:571, index.ts:410)
RootSet(v, root) == IF v = "upd" THEN hasRealRoot(root) ELSE Truthy(root)

\* the pair appended for the seeded listing of root
SeedPair(root) ==
    <<H("model", "functionCall", "listFiles", root, ""),
      H("tool", "functionResponse", "listFiles", NULL, "ok")>>

\* one step of request r, as seeding allows it; mayFail: the seeded listing
\* may throw, which ends the run through the outer catch
SeedingStep(r, mayFail) ==
    LET s == req[r]
        t == req'[r]
        root == ORIGINAL_ROOT_LOCATION
    IN  \* seeding starts only on the first response, only once
        /\ (t.pc = "seedList" /\ t # s) =>
              /\ s.pc = "llmFirst" /\ ~s.seeded /\ t.seeded
              /\ RootSet(variant, root) /\ t.llmCalls = 1
              /\ t.inflight = [name |-> "listFiles", location |-> root, root |-> root]
        /\ s.pc # "llmFirst" => t.seeded = s.seeded
        \* a first response with a tool call is dispatched, not seeded
        /\ (s.pc = "llmFirst" /\ t.pc = "dispatch") => ~t.seeded /\ t.calls # <<>>
        \* a first response without a tool call is answered only without a root
        /\ (s.pc = "llmFirst" /\ t.markdownResponse # NoMessage) =>
              ~t.seeded /\ ~RootSet(variant, root)
        \* the listing's call and result are appended, then the LLM is invoked
        /\ (s.pc = "seedList" /\ t # s) =>
              \/ /\ t.pc = "invokeSeed"
                 /\ t.history = s.history \o SeedPair(s.inflight.location)
                 /\ t.round = 0 /\ t.calls = <<>>
              \/ /\ mayFail
                 /\ t.pc = "closed" /\ t.llmCalls = 1
                 /\ LastEvents(t, 2) = <<ErrorEv, E("finished", "failed")>>
        /\ (s.pc = "invokeSeed" /\ t # s) => t.pc = "llmSeed" /\ t.llmCalls = 2
        /\ (t.seeded /\ InRound(t)) => t.llmCalls >= 2

UserMessageStored(r) ==
    \E i \in 1..Len(messages) : messages[i] = Row(r, "user", "message")

\* C16: with a conversation id, the insert of the new user message has been
\* attempted before the first LLM invocation, and once it has succeeded the
\* message stays stored in every later state of the run, whatever fails.
C16_UserMessageStoredBeforeLlm ==
    \A r \in Reqs :
        req[r].hasConv =>
            /\ req[r].llmCalls >= 1 => req[r].userInsert # "none"
            /\ req[r].userInsert = "stored" => UserMessageStored(r)

\* C16 happens: a run with a conversation id failed after an LLM invocation
\* and the user's message is stored
C16_Witness ==
    /\ req[1].hasConv /\ req[1].pc = "closed" /\ req[1].llmCalls >= 1
    /\ LastEvents(req[1], 2) = <<ErrorEv, E("finished", "failed")>>
    /\ req[1].userInsert = "stored" /\ UserMessageStored(1)


\* the last min(5, n) of the n rows, oldest first, as context entries
LastTurns(rows) ==
    LET n == Len(rows)
        k == Min(5, n)
    IN  [i \in 1..k |->
            Text(IF rows[n - k + i].role = "assistant" THEN "model" ELSE "user",
                 rows[n - k + i].content)]

\* the context entries made of the prior turns p
AsContext(p) ==
    [i \in 1..Len(p) |-> Text(IF p[i].role = "user" THEN "user" ELSE "model", p[i].content)]

\* the entries of the first LLM context between the two prompts and the new
\* user message
PriorPart(v, history) ==
    SubSeq(history, 3, Len(history) - (IF v = "upd" THEN 2 ELSE 1))

\* how often the new user message occurs in a context
Occurrences(history) ==
    Cardinality({i \in 1..Len(history) : history[i].name = "message"})

\* the prior turns of request r, from the select to the first LLM context;
\* mayFail: the select may throw, which leaves no prior turn
PriorTurnsStep(r, mayFail) ==
    LET s == req[r]
        t == req'[r]
    IN  /\ (s.pc = "loadHistory" /\ t # s) =>
              /\ s.userInsert = "none" /\ ~UserMessageStored(r)
              /\ \/ AsContext(t.priorTurns) = LastTurns(RowsOf(r))
                 \/ /\ mayFail
                    /\ t.priorTurns = <<>>
                    /\ t.events = s.events \o <<ErrorEv>>
        /\ t.pc = "invokeFirst" =>
              /\ PriorPart(variant, t.history) = AsContext(t.priorTurns)
              /\ Occurrences(t.history) = 1
        /\ s.pc \notin {"idle", "loadHistory"} => t.priorTurns = s.priorTurns

\* C17 as stated: the prior turns in the LLM context are exactly the last
\* min(5, n) of the n stored messages, oldest first, read before the insert of
\* the new user message, which occurs exactly once in the context.
C17_PriorTurnsAreLastFive == [][\A r \in Reqs : PriorTurnsStep(r, FALSE)]_vars

\* C17: when the select succeeds the prior turns in the LLM context are
\* exactly the last min(5, n) of the n stored messages, oldest first; when the
\* select throws an error event is written and the context holds no prior
\* turn; in both cases they are read before the insert of the new user
\* message, which occurs exactly once in the context.
C17_PriorTurnsAreLastFiveOrNone == [][\A r \in Reqs : PriorTurnsStep(r, TRUE)]_vars

\* C17 happens: six messages were stored, the first LLM context holds the
\* last five of them and the new user message is stored
C17_Witness ==
    /\ req[1].pc = "invokeFirst" /\ req[1].userInsert = "stored"
    /\ Len(RowsOf(1)) = 7 /\ Len(req[1].priorTurns) = 5
    /\ req[1].priorTurns[1].content = "m2" /\ req[1].priorTurns[5].content = "m6"


\* ------------------------------------------------------------------ claims: persistence

\* the events of s hold analysis_result
AnswerEmitted(s) ==
    \E i \in 1..Len(s.events) : s.events[i] = E("analysis_result", "")

\* C18: when the insert of the assistant message throws, an error event is
\* written, nothing is stored, and the run still ends with finished/success;
\* analysis_result is in the stream before the insert is awaited.
C18_AssistantSaveFailureNotFatal ==
    [][\A r \in Reqs :
          LET s == req[r]
              t == req'[r]
          IN  /\ t.pc = "saveAssistant" => AnswerEmitted(t)
              /\ (s.pc = "saveAssistant" /\ t # s) =>
                    /\ t.pc = "closed" /\ t.ends = 1
                    /\ \/ /\ messages' = messages
                          /\ t.events = s.events \o <<ErrorEv, E("finished", "success")>>
                       \/ /\ messages' = Append(messages, Row(r, "assistant", "answer"))
                          /\ t.events = s.events \o <<E("message_saved", "assistant"),
                                                      E("finished", "success")>>]_vars

\* C18 happens: the insert of the assistant message threw and the run ended
\* with finished/success after analysis_result
C18_Witness ==
    /\ req[1].hasConv /\ req[1].pc = "closed" /\ AnswerEmitted(req[1])
    /\ LastEvents(req[1], 2) = <<ErrorEv, E("finished", "success")>>
    /\ \A i \in 1..Len(messages) : messages[i].role # "assistant"


\* ------------------------------------------------------------------ claims: disconnection

\* the assistant message of request r's run is in the store
AssistantStored(r) ==
    \E i \in 1..Len(messages) : messages[i] = Row(r, "assistant", "answer")

\* C19: in a run with a conversation id in which nothing else fails, once the
\* client is gone and the priming is done the handler still goes through its
\* rounds and inserts the assistant message.
C19_DisconnectedRunStillPersists ==
    \A r \in Reqs :
        (req[r].hasConv /\ ~req[r].connected /\ req[r].userInsert # "none")
            ~> (req[r].pc = "closed" /\ AssistantStored(r))

\* C19 happens: the client went away before the answer was written, a round of
\* tool calls was run and the assistant message is stored
C19_Witness ==
    /\ req[1].hasConv /\ ~req[1].connected /\ req[1].pc = "closed"
    /\ req[1].round >= 1 /\ ~AnswerEmitted(req[1]) /\ AssistantStored(1)


\* ------------------------------------------------------------------ claims: operation events

\* the tool a *_started or *_complete event belongs to, "" for other events
ToolOf(e) ==
    CASE e.event \in {"directory_scan_started", "directory_scan_complete"} -> "listFiles"
      [] e.event \in {"file_access_started", "file_access_complete"} -> "getDownloadUrl"
      [] e.event \in {"file_analysis_started", "file_analysis_complete"} -> "readFileText"
      [] e.event \in {"file_update_started", "file_update_complete"} -> "updateFile"
      [] OTHER -> ""

IsStarted(e) == ToolOf(e) # "" /\ e = StartedEvent(ToolOf(e))

IsComplete(e) == ToolOf(e) # "" /\ e = CompleteEvent(ToolOf(e))

\* what an observer who reads the first n events knows: the tool whose
\* operation is open, "none" when no operation is open, "bad" when an
\* operation was started inside another, completed without being open, or
\* interleaved with another event
RECURSIVE Observed(_, _)
Observed(events, n) ==
    IF n = 0 THEN "none"
    ELSE LET open == Observed(events, n - 1)
             e == events[n]
         IN  IF open = "bad" THEN "bad"
             ELSE IF IsStarted(e) THEN (IF open = "none" THEN ToolOf(e) ELSE "bad")
             ELSE IF IsComplete(e) THEN (IF open = ToolOf(e) THEN "none" ELSE "bad")
             ELSE IF e = ErrorEv THEN "none"
             ELSE IF open = "none" THEN "none" ELSE "bad"

\* C20: for every call of a tool the build dispatches (listFiles,
\* getDownloadUrl, readFileText, updateFile) the *_started event is written
\* before the tool runs, the operation is closed by exactly one event, the
\* matching *_complete or an error, before any event of the next call, and
\* the stream never shows two operations open at once: exactly the call whose
\* executor is awaited is open.
C20_OperationEventsBracketCalls ==
    [][\A r \in Reqs :
          LET s == req[r]
              t == req'[r]
              open == Observed(t.events, Len(t.events))
              n == Len(s.events)
          IN  /\ open # "bad"
              /\ (t.pc = "toolWait") <=> (open # "none")
              /\ t.pc = "toolWait" =>
                    /\ open = t.calls[t.idx].name /\ open = t.inflight.name
                    /\ open \in AwaitedTools(variant)
              /\ (s.pc = "dispatch" /\ t # s /\ s.calls[s.idx].name \in AwaitedTools(variant)) =>
                    /\ Len(t.events) > n
                    /\ t.events[n + 1] = StartedEvent(s.calls[s.idx].name)
                    /\ s.inflight = NONE
                    /\ \/ t.pc = "toolWait" /\ Len(t.events) = n + 1
                       \/ /\ t.pc \in {"dispatch", "invokeRound"}
                          /\ t.events[n + 2] = ErrorEv
                          /\ Len(t.events) = n + 2 + (IF t.pc = "invokeRound" THEN 1 ELSE 0)
              /\ (s.pc = "toolWait" /\ t # s) =>
                    /\ t.pc \in {"dispatch", "invokeRound"}
                    /\ t.events[n + 1] \in {CompleteEvent(s.calls[s.idx].name), ErrorEv}
                    /\ Len(t.events) = n + 1 + (IF t.pc = "invokeRound" THEN 1 ELSE 0)]_vars

\* C20 happens: a response asked to read a file and to update a file; the
\* read completed, the update failed, and the stream holds both pairs
C20_Witness ==
    /\ req[1].pc = "invokeRound"
    /\ req[1].calls = <<Call("readFileText", <<MainTs>>), Call("updateFile", NULL)>>
    /\ req[1].events = <<Progress,
                         E("file_analysis_started", ""), E("file_analysis_complete", ""),
                         E("file_update_started", ""), ErrorEv,
                         Progress>>


\* ------------------------------------------------------------------ listFiles: limit and page

\* part_004:132 / index.ts:139: Math.min(100, ...)
LimitCap == 100

\* the values tried: around zero, and around the cap
ArgValues ==
    {Undefined, NotANumber, Infinite}
    \cup {Num(k) : k \in (-MaxTwice)..MaxTwice}
    \cup {Num(2 * LimitCap + k) : k \in (-1)..MaxTwice}

\* Math.floor of the positive number twice/2
Floor(twice) == twice \div 2

\* part_004:94-98 / index.ts:96-99
toPosInt(v, fallback) ==
    IF v.kind = "number" /\ v.twice > 0 THEN Floor(v.twice) ELSE fallback

\* part_004:132-133 / index.ts:139-140: what is passed to namespace.getFiles
ListLimit(args) == Min(LimitCap, toPosInt(args.limit, LimitCap))

ListPage(args) == toPosInt(args.page, 1)

\* one call of listFilesTool with the limit and page of probe.args, up to the
\* call of namespace.getFiles
ProbeLimits ==
    /\ probe.state = "pending"
    /\ probe' = [probe EXCEPT !.state = "listed",
                              !.limit = ListLimit(probe.args),
                              !.page = ListPage(probe.args)]
    /\ UNCHANGED <<variant, hasKey, ORIGINAL_ROOT_LOCATION, req, messages>>

\* direct calls of listFilesTool, over the values of limit and page
InitLimits ==
    /\ variant \in {"upd", "idx"}
    /\ hasKey = TRUE
    /\ ORIGINAL_ROOT_LOCATION \in {Root(1)}
    /\ req = [r \in Reqs |-> Absent]
    /\ messages = <<>>
    /\ probe \in {[args |-> [limit |-> l, page |-> p], state |-> "pending",
                   limit |-> 0, page |-> 0] : l, p \in ArgValues}

NextLimits == ProbeLimits

SpecLimits == InitLimits /\ [][NextLimits]_vars

\* C26: whatever the limit and page arguments of listFiles are, the storage
\* listing is called with a limit between 1 and 100 and a page of at least 1.
C26_LimitAndPageClamped ==
    probe.state = "listed" => probe.limit \in 1..LimitCap /\ probe.page >= 1

\* C26 happens: a limit above the cap and a negative page were clamped
C26_Witness ==
    /\ probe.state = "listed"
    /\ probe.args = [limit |-> Num(2 * LimitCap + 2), page |-> Num(-2)]
    /\ probe.limit = LimitCap /\ probe.page = 1


\* ------------------------------------------------------------------ readFileText: direct calls

\* the first call of readFileTextTool with probe.args on the stored file
ProbeRead ==
    /\ probe.state = "pending"
    /\ \E env \in ReadEnvs :
          probe' = [probe EXCEPT !.state = "once",
                                 !.first = readFileTextTool(probe.args, probe.size, env)]
    /\ UNCHANGED <<variant, hasKey, ORIGINAL_ROOT_LOCATION, req, messages>>

\* a second call with the same arguments; the stored file has not changed
ProbeReadAgain ==
    /\ probe.state = "once"
    /\ \E env \in ReadEnvs :
          probe' = [probe EXCEPT !.state = "twice",
                                 !.second = readFileTextTool(probe.args, probe.size, env)]
    /\ UNCHANGED <<variant, hasKey, ORIGINAL_ROOT_LOCATION, req, messages>>

\* direct calls of readFileTextTool, over names, maxBytes and file sizes
InitFile ==
    /\ variant \in {"upd", "idx"}
    /\ hasKey = TRUE
    /\ ORIGINAL_ROOT_LOCATION \in {Root(1)}
    /\ req = [r \in Reqs |-> Absent]
    /\ messages = <<>>
    /\ probe \in {[args |-> [fileId |-> id, name |-> n, maxBytes |-> m], size |-> s,
                   state |-> "pending", first |-> NoRead, second |-> NoRead] :
                     id \in BOOLEAN, n \in FileNames, m \in ByteArgs, s \in 0..MaxSize}

NextFile == ProbeRead \/ ProbeReadAgain

SpecFile == InitFile /\ [][NextFile]_vars

\* ------------------------------------------------------------------ claims: readFileText

\* the bytes and truncated of one returned text, against the size of the file
\* and the number maxBytes = twice/2; a count of bytes is a natural number, so
\* the cap is read as the whole bytes that fit under maxBytes, none when
\* maxBytes is negative
CapRespected(out, size, twice) ==
    LET cap == IF twice < 0 THEN 0 ELSE twice \div 2
    IN  /\ out.bytes = Min(size, cap)
        /\ out.bytes <= cap
        /\ out.truncated <=> (size > cap)

\* C25: two reads of an unchanged file of size S with the same maxBytes return
\* the same bytes and truncated; for every number maxBytes, bytes is
\* min(S, maxBytes), never above maxBytes, and truncated holds exactly when
\* S > maxBytes (in whole bytes); without maxBytes the cap is 512 KiB.
C25_TruncationByMaxBytes ==
    /\ (probe.state = "twice" /\ probe.first.kind = "text" /\ probe.second.kind = "text") =>
          /\ probe.first.bytes = probe.second.bytes
          /\ probe.first.truncated = probe.second.truncated
    /\ (probe.state # "pending" /\ probe.first.kind = "text") =>
          CASE probe.args.maxBytes.kind = "number" ->
                  CapRespected(probe.first, probe.size, probe.args.maxBytes.twice)
            [] probe.args.maxBytes.kind = "undefined" ->
                  CapRespected(probe.first, probe.size, 2 * DefaultMaxBytes)
            [] OTHER -> TRUE

\* C25 happens: a file of three bytes was read twice with maxBytes 2 and both
\* reads returned two bytes, truncated
C25_Witness ==
    /\ probe.state = "twice" /\ probe.size = 3 /\ probe.args.maxBytes = Num(4)
    /\ probe.first.kind = "text" /\ probe.second.kind = "text"
    /\ probe.first.bytes = 2 /\ probe.first.truncated
    /\ probe.second.bytes = 2 /\ probe.second.truncated


NoUpdate == UpdateOut("none", "", <<>>)

\* a folder under the root of request 1
UnderRoot1 == Root(1) \o <<"/", "src">>

\* the arguments of updateFile tried: with and without fileId, a text name, a
\* name that is not text, no name; no location, the empty location, the
\* root, a folder under it, a location outside it; instructions that are
\* text, blank, or missing
UpdateArgs ==
    [fileId : BOOLEAN, name : {MainTs, LogoPng, <<>>},
     location : {NULL, <<>>, Root(1), UnderRoot1, OUTSIDE},
     instructions : {"text", "blank", "missing"}]

\* part_004:650-672: the await of updateFileTool(probe.args) settles; the
\* requests it made are kept in probe.out
UpdateDone(r) ==
    /\ req[r].pc = "toolWait"
    /\ req[r].calls[req[r].idx].name = "updateFile"
    /\ probe.state = "pending"
    /\ \E env \in UpdateEnvs :
          LET out == updateFileTool(probe.args, env)
          IN  /\ Commit(r, [SettleUpdate(req[r], out) EXCEPT !.io = out.effects],
                        ORIGINAL_ROOT_LOCATION)
              /\ probe' = [probe EXCEPT !.state = "done", !.env = env, !.out = out]
    /\ UNCHANGED <<variant, hasKey, messages>>

\* one request with a conversation id, every failure injected, one LLM
\* response that carries one call; the updateFile call has probe.args
InitUpdate ==
    /\ variant = "upd"
    /\ hasKey = TRUE
    /\ ORIGINAL_ROOT_LOCATION = NULL
    /\ req = [r \in Reqs |-> IF r = 1 THEN NewReq("idle", TRUE, 1, 1, {TRUE}, {})
                             ELSE Absent]
    /\ messages = <<>>
    /\ probe \in {[args |-> a, state |-> "pending", env |-> UpdateOk, out |-> NoUpdate] :
                     a \in UpdateArgs}

NextUpdate == Next \/ \E r \in Reqs : UpdateDone(r)

SpecUpdate == InitUpdate /\ [][NextUpdate]_vars


\* ------------------------------------------------------------------ claims: updateFile

\* how often the followed call made request op
CountOp(out, op) == Cardinality({i \in 1..Len(out.effects) : out.effects[i].op = op})

\* the texts of the rewriting LLM that leave no body
EmptyBodies == {<<>>, <<" ", "\n">>, <<"fence", "\n", "\n", "fence", "\n">>}

\* C27: one updateFile call asks the LLM, deletes and uploads at most once
\* each; an empty rewritten body makes it throw before the delete, a missing
\* upload URL or a failed upload make it throw; whenever it throws,
\* file_update_started is followed by an error event and not by
\* file_update_complete, the error is the result recorded for the call, and
\* the loop goes on.
C27_UpdateFailsLoudlyOnce ==
    [][\A r \in Reqs :
          LET s == req[r]
              t == req'[r]
              out == probe'.out
              env == probe'.env
              n == Len(s.events)
          IN  (probe.state = "pending" /\ probe'.state = "done" /\ s.pc = "toolWait") =>
                 /\ \A op \in {"generateContent", "delete", "getUploadUrl", "put"} :
                        CountOp(out, op) <= 1
                 /\ (CountOp(out, "generateContent") = 1 /\ ~env.throws
                       /\ env.llm \in EmptyBodies) =>
                        out.kind = "thrown" /\ CountOp(out, "delete") = 0
                 /\ (CountOp(out, "getUploadUrl") = 1 /\ env.url # "url") =>
                        out.kind = "thrown" /\ CountOp(out, "put") = 0
                 /\ (CountOp(out, "put") = 1 /\ env.put # "ok") => out.kind = "thrown"
                 /\ s.events[n] = E("file_update_started", "")
                 /\ t.pc \in {"dispatch", "invokeRound"}
                 /\ out.kind = "thrown" =>
                        /\ t.events \in {s.events \o <<ErrorEv>>,
                                         s.events \o <<ErrorEv, Progress>>}
                        /\ t.history = s.history
                              \o <<H("model", "functionCall", "updateFile", NULL, ""),
                                   H("tool", "functionResponse", "updateFile", NULL,
                                     out.error)>>
                 /\ out.kind # "thrown" =>
                        /\ CountOp(out, "delete") = 1 /\ CountOp(out, "put") = 1
                        /\ t.events[n + 1] = E("file_update_complete", "")]_vars

\* C27 happens: the upload of an update failed after the delete; the round
\* ended with file_update_started, an error event and the error as result
C27_Witness ==
    /\ probe.state = "done" /\ probe.out.error = "updateFile: upload failed"
    /\ CountOp(probe.out, "delete") = 1 /\ CountOp(probe.out, "put") = 1
    /\ req[1].pc = "invokeRound"
    /\ req[1].events = <<Progress, E("file_update_started", ""), ErrorEv, Progress>>
    /\ req[1].history[2].response = "updateFile: upload failed"

\* location is the root or lies under it
InsideRoot(location, root) ==
    location = root \/ StartsWith(location, root \o <<"/">>)

\* C28: updateFile deletes and uploads only for a location that is the
\* session root or lies under it.
C28_UpdateConfinedToRoot ==
    probe.state = "done" =>
        \A i \in 1..Len(probe.out.effects) :
            probe.out.effects[i].op \in {"delete", "getUploadUrl", "put"} =>
                InsideRoot(probe.args.location, Root(1))

\* C28 happens: a file in a folder under the root was deleted and uploaded
C28_Witness ==
    /\ probe.state = "done" /\ probe.out.kind = "updated"
    /\ probe.args.location = UnderRoot1
    /\ probe.out.effects[Len(probe.out.effects)] = Op("put", UnderRoot1)


\* ------------------------------------------------------------------ doc analyzer: evidence
\* Texts are sequences of characters here: "a", "b", "A" and the blank.

DefaultMaxSnippets == 10
MaxMaxSnippets == 20

\* part_004:945: z.number().int().min(1).max(20).optional()
ValidMaxSnippets(v) ==
    \/ v = Undefined
    \/ v.kind = "number" /\ v.twice % 2 = 0
         /\ v.twice \div 2 >= 1 /\ v.twice \div 2 <= MaxMaxSnippets

\* part_004:985: maxSnippets = 10
MaxSnippetsOf(v) == IF v = Undefined THEN DefaultMaxSnippets ELSE v.twice \div 2

\* String.prototype.includes
Includes(s, t) == \E i \in 0..(Len(s) - Len(t)) : SubSeq(s, i + 1, i + Len(t)) = t

\* part_004:1039: split(/\s+/).filter(Boolean)
RECURSIVE SplitSpace(_)
SplitSpace(s) ==
    LET t == DropLead(s, Whitespace)
        n == Lead(t, {"a", "b", "A"})
    IN  IF t = <<>> THEN <<>>
        ELSE <<SubSeq(t, 1, n)>> \o SplitSpace(SubSeq(t, n + 1, Len(t)))

QueryTokens(query) == SplitSpace(toLowerCase(query))

\* part_004:1031-1033: files.flatMap over the matches of each file
RECURSIVE PerFileSnippets(_)
PerFileSnippets(files) ==
    IF files = <<>> THEN <<>>
    ELSE LET f == Head(files)
         IN  [i \in 1..Len(f.matches) |->
                 [snippet |-> f.matches[i], fileId |-> f.id, name |-> f.name]]
             \o PerFileSnippets(Tail(files))

\* part_004:1030, 1034-1037
SnippetPool(files, matches) ==
    PerFileSnippets(files)
    \o [i \in 1..Len(matches) |-> [snippet |-> matches[i], fileId |-> NULL, name |-> NULL]]

\* part_004:1042-1043
Hits(snippet, qTokens) ==
    Cardinality({k \in 1..Len(qTokens) : Includes(toLowerCase(snippet), qTokens[k])})

\* part_004:1040-1045; m.snippet || "" is the text or the empty text
ScoredPool(pool, qTokens) ==
    [i \in 1..Len(pool) |->
        [idx |-> i - 1, hits |-> Hits(pool[i].snippet, qTokens),
         snippet |-> pool[i].snippet, fileId |-> pool[i].fileId, name |-> pool[i].name]]

\* Array.prototype.sort with (a, b) => b.hits - a.hits: stable, most hits first
InsertByHits(sorted, x) ==
    LET n == Cardinality({i \in 1..Len(sorted) : sorted[i].hits >= x.hits})
    IN  SubSeq(sorted, 1, n) \o <<x>> \o SubSeq(sorted, n + 1, Len(sorted))

RECURSIVE SortPrefix(_, _)
SortPrefix(scored, n) ==
    IF n = 0 THEN <<>> ELSE InsertByHits(SortPrefix(scored, n - 1), scored[n])

SortByHitsAscending(scored) ==
    LET s == SortPrefix(scored, Len(scored))
    IN  [i \in 1..Len(s) |-> s[Len(s) + 1 - i]]

SortByHits(scored) == SortPrefix(scored, Len(scored))

NonBlank(x) == Len(TrimText(x.snippet)) > 0

\* part_004:1048
UsedSnippets(scored, maxSnippets) ==
    LET kept == SelectSeq(SortByHits(scored), NonBlank)
    IN  SubSeq(kept, 1, Min(Len(kept), maxSnippets))

\* part_004:1050-1055; u.name || null: the empty name becomes null
EvidenceOf(used) ==
    [i \in 1..Len(used) |->
        [idx |-> i, snippet |-> used[i].snippet, fileId |-> used[i].fileId,
         fileName |-> IF used[i].name = <<>> THEN NULL ELSE used[i].name]]


\* ------------------------------------------------------------------ evidence: direct runs

DocSnippets == {<<>>, <<" ">>, <<"a">>, <<"b">>, <<"A", "b">>}

DocQueries == {<<"a", " ", "b">>, <<"A", " ", "a">>, <<"b", "a", " ">>, <<" ", " ", " ">>}

\* the match lists of at most n snippets
MatchLists(n) == UNION {[1..k -> DocSnippets] : k \in 0..n}

\* a long match list: n snippets, the last one holding both letters
LongMatches(n) == [i \in 1..n |-> IF i = n THEN <<"a", "b">> ELSE <<"a">>]

DocFile(id, name, matches) == [id |-> id, name |-> name, matches |-> matches]

DocName == <<"doc", ".", "txt">>

\* search results: files with their matches, and the global matches
SearchResults ==
    {[files |-> <<DocFile(<<"f1">>, DocName, m1), DocFile(<<"f2">>, <<>>, m2)>>, matches |-> g] :
        m1 \in MatchLists(MaxPool), m2 \in MatchLists(1), g \in MatchLists(1)}
    \cup {[files |-> <<DocFile(<<"f1">>, DocName, LongMatches(n))>>, matches |-> <<>>] :
            n \in {DefaultMaxSnippets + 1, MaxMaxSnippets + 1}}

SnippetBudgets == {Undefined, Num(2), Num(4), Num(2 * MaxMaxSnippets)}

ProbeEvidence ==
    /\ probe.state = "pending"
    /\ LET used == UsedSnippets(ScoredPool(SnippetPool(probe.search.files,
                                                       probe.search.matches),
                                           QueryTokens(probe.query)),
                                MaxSnippetsOf(probe.maxSnippets))
       IN  probe' = [probe EXCEPT !.state = "done", !.used = used,
                                  !.evidence = EvidenceOf(used)]
    /\ UNCHANGED <<variant, hasKey, ORIGINAL_ROOT_LOCATION, req, messages>>

InitEvidence ==
    /\ variant = "upd"
    /\ hasKey = TRUE
    /\ ORIGINAL_ROOT_LOCATION = NULL
    /\ req = [r \in Reqs |-> Absent]
    /\ messages = <<>>
    /\ probe \in {[search |-> s, query |-> q, maxSnippets |-> m, state |-> "pending",
                   used |-> <<>>, evidence |-> <<>>] :
                     s \in SearchResults, q \in DocQueries, m \in SnippetBudgets}

NextEvidence == ProbeEvidence

SpecEvidence == InitEvidence /\ [][NextEvidence]_vars

\* ------------------------------------------------------------------ claims: evidence

\* C30: the evidence holds only snippets with a character that is not white
\* space, at most maxSnippets of them (10 when absent, never more than 20),
\* in the order of non-increasing number of query tokens contained, equal
\* numbers in pool order, the pool listing per-file snippets before global
\* ones, and idx counts 1, 2, ..., k.
C30_EvidenceRankedAndCapped ==
    probe.state = "done" =>
        LET ev == probe.evidence
            used == probe.used
            pool == SnippetPool(probe.search.files, probe.search.matches)
            q == QueryTokens(probe.query)
            cap == IF probe.maxSnippets = Undefined THEN 10
                   ELSE probe.maxSnippets.twice \div 2
        IN  /\ Len(ev) <= cap /\ Len(ev) <= 20 /\ Len(ev) = Len(used)
            /\ \A i, j \in 1..Len(pool) :
                   (i < j /\ pool[i].fileId = NULL) => pool[j].fileId = NULL
            /\ \A i \in 1..Len(ev) :
                   /\ ev[i].idx = i
                   /\ ev[i].snippet = pool[used[i].idx + 1].snippet
                   /\ ev[i].fileId = pool[used[i].idx + 1].fileId
                   /\ \E k \in 1..Len(ev[i].snippet) : ev[i].snippet[k] \notin Whitespace
            /\ \A i, j \in 1..Len(ev) :
                   i < j =>
                      LET hi == Hits(ev[i].snippet, q)
                          hj == Hits(ev[j].snippet, q)
                      IN  hi >= hj /\ (hi = hj => used[i].idx < used[j].idx)

\* C30 happens: of eleven snippets the default keeps ten, the last of the
\* pool first because it holds both query tokens, the others in pool order
C30_Witness ==
    /\ probe.state = "done" /\ probe.maxSnippets = Undefined
    /\ probe.query = <<"a", " ", "b">>
    /\ Len(probe.search.files[1].matches) = 11
    /\ Len(probe.evidence) = 10
    /\ probe.used[1].idx = 10 /\ probe.used[2].idx = 0 /\ probe.used[10].idx = 8


\* ------------------------------------------------------------------ doc analyzer: the handler
\* POST /ai/docs-analyzer/stream, part_004:953-1189.  The run and its table
\* docChatMessages are the fields doc and docChatMessages of `probe`.

DocConv == <<"d1">>

\* request bodies; userId and docFileId are present in all of them
DocBodies ==
    [namespaceId : {<<>>, <<"ns">>}, query : {<<"a">>, <<"a", " ", "b">>},
     maxSnippets : {Undefined, Num(2), Num(2 * MaxMaxSnippets + 2)},
     conversationId : {NULL, <<>>, DocConv}]

\* part_004:942-949, 971
ValidBody(body) ==
    /\ Len(body.namespaceId) >= 1
    /\ Len(body.query) >= 3
    /\ ValidMaxSnippets(body.maxSnippets)

\* part_004:1059, 1148: if (conversationId)
DocHasConversationAlways(body) == TRUE

DocHasConversation(body) == Truthy(body.conversationId)

\* the messages of the result event
InvalidRequest == <<"Invalid request.">>
MissingKey == <<"Configuration error: GEMINI_API_KEY is missing.">>
InvalidNamespace == <<"Invalid namespace.">>
SearchFailed == <<"Search failed.">>
FatalError == <<"A fatal error occurred during analysis.">>
DefaultAnswer == <<"No sufficient evidence found to answer confidently.">>

DocResult(message, files, evidence) ==
    [message |-> message, files |-> files, evidence |-> evidence]

NoResult == DocResult(NULL, <<>>, <<>>)

\* timer: the keep-alive interval of part_004:965 is set
NewDoc(pc, body) ==
    [pc |-> pc, body |-> body, events |-> <<>>, llmCalls |-> 0, timer |-> FALSE,
     ends |-> 0, files |-> <<>>, evidence |-> <<>>, priorTurns |-> <<>>,
     text |-> <<>>, result |-> NoResult]

\* part_004:961-964
DocSend(d, name, status) == [d EXCEPT !.events = Append(@, E(name, status))]

\* send("result", ...), res.end() and the finally block, part_004:1186-1188
DocEndSilent(d, result) ==
    [d EXCEPT !.pc = "closed", !.ends = @ + 1, !.timer = FALSE]

DocEnd(d, result) ==
    [DocSend(d, "result", "") EXCEPT !.pc = "closed", !.ends = @ + 1,
                                     !.timer = FALSE, !.result = result]

\* part_004:1177-1185
DocFatal(d) == DocEnd(d, DocResult(FatalError, <<>>, <<>>))

\* part_004:1114-1131: the processing event and the one LLM call
DocAsk(d) ==
    [DocSend(d, "processing", "") EXCEPT !.pc = "llm", !.llmCalls = @ + 1]

\* part_004:1024-1028: the name without its leading slashes
LiteFiles(files) ==
    [i \in 1..Len(files) |-> [files[i] EXCEPT !.name = DropLead(@, {"/"})]]

\* part_004:1136: new Set(files.map(f => f.name)), in insertion order
KnownNames(files) ==
    LET first == {i \in 1..Len(files) : \A j \in 1..(i - 1) : files[j].name # files[i].name}
        nth(k) == CHOOSE i \in first : Cardinality({j \in first : j < i}) = k - 1
    IN  [k \in 1..Cardinality(first) |-> files[nth(k)].name]

\* part_004:1139-1141: every match of an optional backquote, a slash, the
\* name and an optional backquote becomes the name in backquotes; "tick"
\* stands for the backquote
RECURSIVE ReplaceSlashName(_, _)
ReplaceSlashName(text, name) ==
    LET n == Len(name)
        hit(k) == /\ Len(text) >= k + 1 + n
                  /\ text[k + 1] = "/"
                  /\ SubSeq(text, k + 2, k + 1 + n) = name
        lead == IF text # <<>> /\ Head(text) = "tick" /\ hit(1) THEN 1 ELSE 0
        end == lead + 1 + n
        trail == IF Len(text) > end /\ text[end + 1] = "tick" THEN 1 ELSE 0
    IN  IF text = <<>> THEN <<>>
        ELSE IF hit(lead)
        THEN <<"tick">> \o name \o <<"tick">>
             \o ReplaceSlashName(SubSeq(text, end + trail + 1, Len(text)), name)
        ELSE <<Head(text)>> \o ReplaceSlashName(Tail(text), name)

RECURSIVE NormalizeNames(_, _)
NormalizeNames(text, names) ==
    IF names = <<>> THEN text
    ELSE NormalizeNames(ReplaceSlashName(text, Head(names)), Tail(names))

\* part_004:1133-1145
DocText(respText, files) ==
    LET text == TrimText(respText)
    IN  IF text # <<>> THEN NormalizeNames(text, KnownNames(files)) ELSE DefaultAnswer

\* what the search returns
NoSearch == [files |-> <<>>, matches |-> <<>>]

DocSearches ==
    {NoSearch,
     [files |-> <<DocFile(<<"f1">>, <<"/">> \o DocName, << <<"a">>, <<" ">> >>),
                  DocFile(<<"f2">>, <<>>, <<>>)>>,
      matches |-> << <<"A", "b">> >>]}

\* how the search ends: it throws, it returns a list whose entries cannot be
\* read (a TypeError in part_004:1024-1045), or it returns a result
DocSearchOutcomes ==
    {[kind |-> k, search |-> NoSearch] : k \in {"throws", "malformed"}}
    \cup {[kind |-> "ok", search |-> s] : s \in DocSearches}

\* resp.text of the LLM
DocAnswers ==
    {<<>>, <<" ">>, <<"ok">>, <<"see", " ", "/", "doc", ".", "txt", " ">>}

\* the rows of the conversation, part_004:1061-1065
DocRowsOf(conv) == SelectSeq(probe.docChatMessages, LAMBDA row : row.conv = conv)

\* part_004:953-1009: up to the await of getMetaData
DocArrive ==
    /\ probe.doc.pc = "idle"
    /\ LET d == DocSend([probe.doc EXCEPT !.timer = TRUE], "analyse_started", "")
       IN  \E ns \in {"ok", "throws"} :
              probe' = [probe EXCEPT !.doc =
                  IF ~ValidBody(d.body) THEN DocEnd(d, DocResult(InvalidRequest, <<>>, <<>>))
                  ELSE IF ~hasKey THEN DocEnd(d, DocResult(MissingKey, <<>>, <<>>))
                  ELSE IF ns = "throws"
                       THEN DocEnd(d, DocResult(InvalidNamespace, <<>>, <<>>))
                  ELSE [d EXCEPT !.pc = "namespace"]]
    /\ UNCHANGED <<variant, hasKey, ORIGINAL_ROOT_LOCATION, req, messages>>

\* part_004:1005-1017: getMetaData settled, a rejection being swallowed
DocNamespace ==
    /\ probe.doc.pc = "namespace"
    /\ probe' = [probe EXCEPT !.doc.pc = "search"]
    /\ UNCHANGED <<variant, hasKey, ORIGINAL_ROOT_LOCATION, req, messages>>

\* part_004:1014-1065 or 1014-1131: the search settled
DocSearch ==
    /\ probe.doc.pc = "search"
    /\ \E out \in DocSearchOutcomes :
          LET d == probe.doc
              files == LiteFiles(out.search.files)
              used == UsedSnippets(ScoredPool(SnippetPool(files, out.search.matches),
                                              QueryTokens(d.body.query)),
                                   MaxSnippetsOf(d.body.maxSnippets))
              e == [d EXCEPT !.files = files, !.evidence = EvidenceOf(used)]
          IN  probe' = [probe EXCEPT !.doc =
                  IF out.kind = "throws"
                  THEN DocEnd(d, DocResult(SearchFailed, <<>>, <<>>))
                  ELSE IF out.kind = "malformed" THEN DocFatal(d)
                  ELSE IF DocHasConversation(d.body) THEN [e EXCEPT !.pc = "loadHistory"]
                  ELSE DocAsk(e)]
    /\ UNCHANGED <<variant, hasKey, ORIGINAL_ROOT_LOCATION, req, messages>>

\* part_004:1060-1081: the select settled
DocLoadHistory ==
    /\ probe.doc.pc = "loadHistory"
    /\ \E thrown \in BOOLEAN :
          LET d == probe.doc
              rows == DocRowsOf(d.body.conversationId)
              p == [d EXCEPT !.priorTurns = LastFive(TurnsOf(rows))]
              s == IF thrown THEN DocSend(d, "history_error", "")
                   ELSE IF Len(rows) > 0 THEN DocSend(p, "history_loaded", "") ELSE p
          IN  probe' = [probe EXCEPT !.doc = [s EXCEPT !.pc = "saveUser"]]
    /\ UNCHANGED <<variant, hasKey, ORIGINAL_ROOT_LOCATION, req, messages>>

\* part_004:1073-1131: the insert of the user message settled
DocSaveUser ==
    /\ probe.doc.pc = "saveUser"
    /\ \E thrown \in BOOLEAN :
          LET d == probe.doc
          IN  probe' = [probe EXCEPT
                  !.doc = DocAsk(IF thrown THEN DocSend(d, "message_save_error", "user")
                                 ELSE DocSend(d, "message_saved", "user")),
                  !.docChatMessages =
                      IF thrown THEN @
                      ELSE Append(@, Row(d.body.conversationId, "user", d.body.query))]
    /\ UNCHANGED <<variant, hasKey, ORIGINAL_ROOT_LOCATION, req, messages>>

\* part_004:1127-1161 or 1127-1188: generateContent settled
DocLlm ==
    /\ probe.doc.pc = "llm"
    /\ \E thrown \in BOOLEAN, respText \in DocAnswers :
          LET d == [probe.doc EXCEPT !.text = DocText(respText, probe.doc.files)]
          IN  probe' = [probe EXCEPT !.doc =
                  IF thrown THEN DocFatal(probe.doc)
                  ELSE IF DocHasConversation(d.body) THEN [d EXCEPT !.pc = "saveAssistant"]
                  ELSE DocEnd(d, DocResult(d.text, d.files, d.evidence))]
    /\ UNCHANGED <<variant, hasKey, ORIGINAL_ROOT_LOCATION, req, messages>>

\* part_004:1150-1188: the insert of the assistant message settled
DocSaveAssistant ==
    /\ probe.doc.pc = "saveAssistant"
    /\ \E thrown \in BOOLEAN :
          LET d == probe.doc
              s == IF thrown THEN DocSend(d, "message_save_error", "assistant")
                   ELSE DocSend(d, "message_saved", "assistant")
          IN  probe' = [probe EXCEPT
                  !.doc = DocEnd(s, DocResult(d.text, d.files, d.evidence)),
                  !.docChatMessages =
                      IF thrown THEN @
                      ELSE Append(@, Row(d.body.conversationId, "assistant", d.text))]
    /\ UNCHANGED <<variant, hasKey, ORIGINAL_ROOT_LOCATION, req, messages>>

DocStep ==
    \/ DocArrive
    \/ DocNamespace
    \/ DocSearch
    \/ DocLoadHistory
    \/ DocSaveUser
    \/ DocLlm
    \/ DocSaveAssistant

\* rows stored by earlier runs
OldReviewRow == Row(1, "assistant", "old")
OldDocRow == Row(DocConv, "user", <<"b">>)

\* one review run and one doc-analyzer run, in any interleaving
InitDoc ==
    /\ variant \in {"upd", "idx"}
    /\ hasKey \in BOOLEAN
    /\ ORIGINAL_ROOT_LOCATION = NULL
    /\ req = [r \in Reqs |-> IF r = 1 THEN NewReq("idle", TRUE, 1, 1, BOOLEAN, {})
                             ELSE Absent]
    /\ messages = <<OldReviewRow>>
    /\ probe \in {[doc |-> NewDoc("idle", b), docChatMessages |-> <<OldDocRow>>] :
                     b \in DocBodies}

NextDoc == Next \/ DocStep

SpecDoc == InitDoc /\ [][NextDoc]_vars


\* ------------------------------------------------------------------ claims: doc analyzer

\* the positions of the result events of the doc-analyzer run
ResultEvents(d) == {i \in 1..Len(d.events) : d.events[i].event = "result"}

\* the streams a doc-analyzer run writes apart from the result
DocEventNames ==
    {"analyse_started", "history_loaded", "history_error", "message_saved",
     "message_save_error", "processing", "result"}

\* C29: a doc-analyzer request invokes the LLM at most once and emits no
\* tool event; it emits no result event before it closes, and once closed,
\* on whichever path, it has emitted exactly one result event, as its last
\* event, has ended the response once, and its keep-alive timer is cleared.
C29_DocRunEndsWithOneResult ==
    LET d == probe.doc
    IN  /\ d.llmCalls <= 1
        /\ \A i \in 1..Len(d.events) : d.events[i].event \in DocEventNames
        /\ d.pc # "closed" => ResultEvents(d) = {} /\ d.ends = 0
        /\ d.pc \notin {"idle", "closed"} => d.timer
        /\ d.pc = "closed" =>
              /\ ResultEvents(d) = {Len(d.events)}
              /\ d.ends = 1
              /\ ~d.timer
              /\ d.result.message \in
                    {InvalidRequest, MissingKey, InvalidNamespace, SearchFailed,
                     FatalError, d.text}
              /\ ~ValidBody(d.body) => d.result.message = InvalidRequest /\ d.llmCalls = 0

\* C29 happens: the LLM call of a doc-analyzer run threw, and the run closed
\* with the result event of the catch block after one LLM call
C29_Witness ==
    /\ probe.doc.pc = "closed" /\ probe.doc.llmCalls = 1
    /\ probe.doc.result.message = FatalError
    /\ probe.doc.events = <<E("analyse_started", ""), E("processing", ""), E("result", "")>>

\* the roles of the rows from the second on
NewRoles(rows) == [i \in 1..(Len(rows) - 1) |-> rows[i + 1].role]

\* what one run may insert: a user message, then an assistant message
RunInserts == {<<>>, <<"user">>, <<"assistant">>, <<"user", "assistant">>}

\* C23: whatever review and doc-analyzer runs do, both message tables only
\* grow at their end, by one row per step; a run with a conversation id
\* inserts at most one user row and after it at most one assistant row, all
\* for its conversation, and a run without one inserts nothing.
C23_StoreAppendOnly ==
    [][/\ StartsWith(messages', messages)
       /\ Len(messages') <= Len(messages) + 1
       /\ StartsWith(probe'.docChatMessages, probe.docChatMessages)
       /\ Len(probe'.docChatMessages) <= Len(probe.docChatMessages) + 1
       /\ NewRoles(messages') \in RunInserts
       /\ NewRoles(probe'.docChatMessages) \in RunInserts
       /\ \A i \in 2..Len(messages') : messages'[i].conv = 1 /\ req'[1].hasConv
       /\ \A i \in 2..Len(probe'.docChatMessages) :
              /\ Truthy(probe'.doc.body.conversationId)
              /\ probe'.docChatMessages[i].conv = probe'.doc.body.conversationId]_vars

\* C23 happens: the doc-analyzer run stored its two rows and closed while the
\* review run had stored its user message and not yet its answer
C23_Witness ==
    /\ Len(messages) = 2 /\ messages[2].role = "user"
    /\ req[1].pc \notin {"closed", "idle"}
    /\ probe.doc.pc = "closed"
    /\ NewRoles(probe.docChatMessages) = <<"user", "assistant">>


\* ------------------------------------------------------------------ GET /chat/:conversationId/messages
\* part_004:880-893.  The table is `messages`; probe.clock[i] is the value of
\* defaultNow() for the i-th row inserted (schema.ts:27), which need not grow
\* with i; probe.last and probe.prev are the two latest responses.

\* the rows a run may add to the one stored before
MaxRows == Len(<<"old", "user", "assistant">>)

Clocks == [1..MaxRows -> 1..MaxClock]

\* the row as the select returns it
Selected(i, clock) ==
    [id |-> i, createdAt |-> clock[i], role |-> messages[i].role,
     content |-> messages[i].content]

\* orderBy(asc(chatMessages.createdAt)): the orders the database may return
\* the rows `ids` in, rows of equal createdAt in any order
OrderedRowsAsInserted(ids, clock) ==
    {seq \in [1..Cardinality(ids) -> ids] :
        \A k, l \in 1..Cardinality(ids) : k < l => seq[k] < seq[l]}

OrderedRows(ids, clock) ==
    {seq \in [1..Cardinality(ids) -> ids] :
        /\ \A k, l \in 1..Cardinality(ids) : k # l => seq[k] # seq[l]
        /\ \A k, l \in 1..Cardinality(ids) : k < l => clock[seq[k]] <= clock[seq[l]]}

\* seen: the number of rows whose insert had completed when the read was issued
Response(conv, status, rows, seen) ==
    [conv |-> conv, status |-> status, rows |-> rows, seen |-> seen]

NoResponse == Response(0, 0, <<>>, 0)

GetMessages ==
    \E conv \in Reqs, thrown \in BOOLEAN :
        LET ids == {i \in 1..Len(messages) : messages[i].conv = conv}
        IN  \E seq \in OrderedRows(ids, probe.clock) :
               /\ probe' = [probe EXCEPT
                     !.prev = probe.last,
                     !.last = IF thrown THEN Response(conv, 500, <<>>, Len(messages))
                              ELSE Response(conv, 200,
                                            [k \in 1..Len(seq) |->
                                                Selected(seq[k], probe.clock)],
                                            Len(messages))]
               /\ UNCHANGED <<variant, hasKey, ORIGINAL_ROOT_LOCATION, req, messages>>

\* one review run in a stored conversation, and reads of the messages
InitMessages ==
    /\ variant = "upd"
    /\ hasKey = TRUE
    /\ ORIGINAL_ROOT_LOCATION = NULL
    /\ req = [r \in Reqs |-> IF r = 1 THEN NewReq("idle", FALSE, 1, 1, {TRUE}, {})
                             ELSE Absent]
    /\ messages = <<OldReviewRow>>
    /\ probe \in {[clock |-> c, last |-> NoResponse, prev |-> NoResponse] : c \in Clocks}

NextMessages == Next \/ GetMessages

SpecMessages == InitMessages /\ [][NextMessages]_vars

\* ------------------------------------------------------------------ claims: reading messages

\* the ids of the rows of a response
IdsOf(response) == {response.rows[k].id : k \in 1..Len(response.rows)}

\* C22: a successful read returns the rows of the conversation with creation
\* timestamps that never decrease along the list; every row of the
\* conversation inserted before the read is in it, and in the read after it.
C22_ReadsOrderedAndComplete ==
    /\ \A response \in {probe.last, probe.prev} :
          response.status = 200 =>
             /\ \A k, l \in 1..Len(response.rows) :
                    k < l => response.rows[k].createdAt <= response.rows[l].createdAt
             /\ IdsOf(response) =
                    {i \in 1..response.seen : messages[i].conv = response.conv}
             /\ \A k \in 1..Len(response.rows) :
                    LET row == response.rows[k]
                    IN  /\ row.createdAt = probe.clock[row.id]
                        /\ row.role = messages[row.id].role
                        /\ row.content = messages[row.id].content
    /\ (probe.prev.status = 200 /\ probe.last.status = 200
          /\ probe.prev.conv = probe.last.conv) =>
          IdsOf(probe.prev) \subseteq IdsOf(probe.last)

\* C22 happens: a read returned the stored row; the run then inserted its
\* user message with an earlier timestamp, and the next read returned both,
\* the new row first
C22_Witness ==
    /\ probe.prev.status = 200 /\ probe.last.status = 200
    /\ Len(probe.prev.rows) = 1 /\ probe.prev.rows[1].id = 1
    /\ Len(probe.last.rows) = 2
    /\ probe.last.rows[1].id = 2 /\ probe.last.rows[2].id = 1
    /\ probe.last.rows[1].createdAt < probe.last.rows[2].createdAt


\* ------------------------------------------------------------------ the keep-alive timer
\* part_004:363, 754 / index.ts:252, 590

\* the interval is set from the start of the handler to its finally block
TimerSetForever(s) == s.pc \notin {"idle", "absent"}

TimerSet(s) == s.pc \notin {"idle", "absent", "closed"}

Pings(wire) == Cardinality({i \in 1..Len(wire) : wire[i] = PingLine})

\* the timer callback runs between two steps of the handler and writes one
\* comment; at most MaxPings of them are followed between two LLM invocations
Ping(r) ==
    /\ TimerSet(req[r])
    /\ req[r].connected
    /\ Pings(req[r].wire) < MaxPings
    /\ Commit(r, [req[r] EXCEPT !.wire = Append(@, PingLine)], ORIGINAL_ROOT_LOCATION)
    /\ UNCHANGED <<variant, hasKey, messages, probe>>

InitWire ==
    /\ variant \in {"upd", "idx"}
    /\ hasKey \in BOOLEAN
    /\ ORIGINAL_ROOT_LOCATION = NULL
    /\ req = [r \in Reqs |-> IF r = 1 THEN NewReq("idle", TRUE, 1, 1, BOOLEAN, {})
                             ELSE Absent]
    /\ messages = <<>>
    /\ probe = NoProbe

NextWire == Next \/ \E r \in Reqs : Ping(r)

SpecWire == InitWire /\ [][NextWire]_vars

\* ------------------------------------------------------------------ claims: the wire

\* the lines of a wire that are not pings
WithoutPings(wire) == SelectSeq(wire, LAMBDA l : l # PingLine)

\* C21: what is on the wire, the pings left out, is the event: line and the
\* data: line of each event in the order of the send calls; the data: line of
\* an event follows its event: line with no ping between them; and once the
\* handler has run its finally block nothing more is written.
C21_WireKeepsOrderAndPingsApart ==
    [][\A r \in Reqs :
          LET s == req[r]
              t == req'[r]
          IN  /\ Len(WithoutPings(t.wire)) = 2 * Len(t.events)
              /\ \A k \in 1..Len(t.events) :
                     /\ WithoutPings(t.wire)[2 * k - 1] = Line("event", t.events[k])
                     /\ WithoutPings(t.wire)[2 * k] = Line("data", t.events[k])
              /\ \A i \in 1..Len(t.wire) :
                     t.wire[i].line = "event" =>
                        i < Len(t.wire) /\ t.wire[i + 1] = Line("data", t.wire[i].of)
              /\ s.pc = "closed" => t.wire = s.wire]_vars

\* C21 happens: a run closed after a ping was written between two of the
\* events of its last round
C21_Witness ==
    /\ req[1].pc = "closed"
    /\ \E i \in 2..(Len(req[1].wire) - 1) :
          /\ req[1].wire[i] = PingLine
          /\ req[1].wire[i - 1].line = "data"
          /\ req[1].wire[i + 1].line = "event"
    /\ req[1].wire[Len(req[1].wire)] = Line("data", E("finished", "success"))


\* ------------------------------------------------------------------ claims: seeding failure

\* C32 as stated: when the awaited root listing of seeding settles, failed or
\* not, the run goes on: its call and a result are appended to the context,
\* the LLM is invoked again, and the run is not ended as failed.
C32_SeedFailureFedBack ==
    [][\A r \in Reqs :
          LET s == req[r]
              t == req'[r]
          IN  (s.pc = "seedList" /\ t # s) =>
                 /\ t.pc = "invokeSeed" /\ t.ends = 0
                 /\ Len(t.history) = Len(s.history) + 2
                 /\ t.history[Len(t.history)].kind = "functionResponse"
                 /\ \A i \in 1..Len(t.events) : t.events[i] # E("finished", "failed")]_vars

\* C32 happens: the seeded listing failed and the run closed as failed after
\* its one LLM invocation
C32_Witness ==
    /\ req[1].pc = "closed" /\ req[1].seeded /\ req[1].llmCalls = 1
    /\ req[1].inflight = NONE /\ req[1].history = <<>>
    /\ LastEvents(req[1], 3) = <<Progress, ErrorEv, E("finished", "failed")>>

\* ------------------------------------------------------------------ claims: answering

\* the positions of the analysis_result events of request s
Results(s) == {i \in 1..Len(s.events) : s.events[i] = E("analysis_result", "")}

\* the events of s after position i
After(s, i) == SubSeq(s.events, i + 1, Len(s.events))

\* C33: a run emits analysis_result at most once; it is followed by
\* review_summary, then, with a conversation id, by message_saved or an error
\* event once the insert has settled, then by finished/success as the last
\* event; a run that closes with finished/success has emitted it, and a run
\* that emitted finished/failed has not.
C33_AnsweringOrder ==
    \A r \in Reqs :
        LET s == req[r]
            n == Len(s.events)
        IN  /\ Cardinality(Results(s)) <= 1
            /\ (\E i \in 1..n : s.events[i] = E("finished", "failed")) => Results(s) = {}
            /\ (s.pc = "closed" /\ n > 0 /\ s.events[n] = E("finished", "success")) =>
                   Results(s) # {}
            /\ \A i \in Results(s) :
                   /\ s.pc \in {"saveAssistant", "closed"}
                   /\ After(s, i) \in
                         IF ~s.hasConv
                         THEN {<<E("review_summary", ""), E("finished", "success")>>}
                         ELSE IF s.pc = "saveAssistant"
                         THEN {<<E("review_summary", "")>>}
                         ELSE {<<E("review_summary", ""), x, E("finished", "success")>> :
                                  x \in {E("message_saved", "assistant"), ErrorEv}}

\* C33 happens: a run with a conversation id answered after a round of tool
\* calls, stored its answer and closed
C33_Witness ==
    /\ req[1].pc = "closed" /\ req[1].hasConv /\ req[1].round = 1
    /\ LastEvents(req[1], 4) =
          <<E("analysis_result", ""), E("review_summary", ""),
            E("message_saved", "assistant"), E("finished", "success")>>

\* C36 as stated: once the round counter has reached the budget with the last
\* response still asking for tool calls, the run answers with that response's
\* text, and with the fallback only when the text is empty.
C36_BudgetExhaustedAnswersWithText ==
    \A r \in Reqs :
        LET s == req[r]
        IN  (s.round = MaxRounds /\ s.calls # <<>> /\ s.pc = "closed") =>
               (s.markdownResponse.kind = "text" <=> s.finalText.length > 0)

\* C36: once the round counter has reached the budget with the last response
\* still asking for tool calls, none of them is dispatched and the LLM is not
\* invoked again; the run answers with that response's text, or with the
\* fallback when the text is empty, shorter than 20 characters or a refusal,
\* emits analysis_result, and closes with finished/success.
C36_BudgetExhaustedAnswers ==
    [][\A r \in Reqs :
          LET s == req[r]
              t == req'[r]
          IN  /\ (t.round = MaxRounds /\ t.calls # <<>>) =>
                    /\ t.pc \in {"saveAssistant", "closed"}
                    /\ t.idx = 0 /\ t.inflight = NONE
                    /\ Results(t) # {}
                    /\ t.markdownResponse = Compose(variant, t.finalText, t.gatheredTexts)
                    /\ t.markdownResponse.kind = "text" <=>
                          (t.finalText.length >= 20 /\ ~t.finalText.matches)
                    /\ t.pc = "closed" => t.events[Len(t.events)] = E("finished", "success")
              /\ (s.round = MaxRounds /\ s.calls # <<>>) =>
                    /\ t.llmCalls = s.llmCalls /\ t.calls = s.calls
                    /\ t.history = s.history]_vars

\* C36 happens: the response after the twentieth round asked for a tool call
\* and its text was empty; the run answered with the fallback and closed
C36_Witness ==
    /\ req[1].pc = "closed" /\ req[1].round = MaxRounds /\ req[1].calls # <<>>
    /\ req[1].finalText.length = 0 /\ req[1].markdownResponse.kind # "text"
    /\ req[1].events[Len(req[1].events)] = E("finished", "success")


\* ------------------------------------------------------------------ claims: updateFile and the stored file

\* C34: after an updateFile call the storage holds the original or the
\* rewritten file, and the original whenever the call failed.
C34_UpdateLeavesAFile ==
    probe.state = "done" =>
        /\ StoredAfter(probe.out) \in {"original", "rewritten"}
        /\ probe.out.kind = "thrown" => StoredAfter(probe.out) = "original"

\* C34 happens: no upload URL was issued after the delete, and the call failed
C34_Witness ==
    /\ probe.state = "done" /\ probe.env.url = "none"
    /\ probe.out.error = "updateFile: failed to get upload URL"
    /\ CountOp(probe.out, "delete") = 1 /\ CountOp(probe.out, "put") = 0

\* C35: when the stored file is larger than the cap of the read, so that the
\* read is truncated, updateFile neither deletes nor uploads.
C35_NoRewriteOfTruncatedRead ==
    (probe.state = "done" /\ probe.env.size > UpdateMaxBytes) =>
        /\ CountOp(probe.out, "delete") = 0
        /\ CountOp(probe.out, "put") = 0

\* C35 happens: a file of one byte more than 2 MiB was read truncated,
\* rewritten and uploaded
C35_Witness ==
    /\ probe.state = "done" /\ probe.env.size = UpdateMaxBytes + 1
    /\ CurrentOf(probe.args, probe.env).truncated
    /\ CurrentOf(probe.args, probe.env).bytes = UpdateMaxBytes
    /\ probe.out.kind = "updated"


\* ------------------------------------------------------------------ POST /review-zip
\* part_004:787-816 / index.ts:621-650.  The table review_zip and the requests
\* are the fields reviewZip and post of `probe`.  The table has no unique
\* constraint on (user_id, zip_file_id) (schema.ts:3-10): id is its only key.

Posts == 1..MaxPosts

ZipBodies == [userId : {<<>>, <<"u1">>}, zipFileId : {<<"z1">>, <<"z2">>}]

\* part_004:787-791, 794
ValidZipBody(body) == Len(body.userId) >= 1 /\ Len(body.zipFileId) >= 1

ZipRow(body) == [userId |-> body.userId, zipFileId |-> body.zipFileId]

\* part_004:801-805: the rows the select returns
Existing(table, body) == {i \in 1..Len(table) : table[i] = ZipRow(body)}

\* had: a row of the pair was stored when the request arrived; status: the
\* status answered, 0 before
NewPost(body) == [pc |-> "idle", body |-> body, status |-> 0, had |-> FALSE]

\* part_004:793-805: up to the await of the select
ZipArrive(p) ==
    /\ probe.post[p].pc = "idle"
    /\ LET q == probe.post[p]
       IN  probe' = [probe EXCEPT !.post[p] =
               IF ~ValidZipBody(q.body) THEN [q EXCEPT !.pc = "closed", !.status = 400]
               ELSE [q EXCEPT !.pc = "select",
                              !.had = Existing(probe.reviewZip, q.body) # {}]]
    /\ UNCHANGED <<variant, hasKey, ORIGINAL_ROOT_LOCATION, req, messages>>

\* part_004:801-812: the select settled; a rejection is not caught
ZipSelected(p) ==
    /\ probe.post[p].pc = "select"
    /\ \E thrown \in BOOLEAN :
          LET q == probe.post[p]
          IN  probe' = [probe EXCEPT !.post[p] =
                  IF thrown THEN [q EXCEPT !.pc = "closed", !.status = 500]
                  ELSE IF Existing(probe.reviewZip, q.body) # {}
                  THEN [q EXCEPT !.pc = "closed", !.status = 409]
                  ELSE [q EXCEPT !.pc = "insert"]]
    /\ UNCHANGED <<variant, hasKey, ORIGINAL_ROOT_LOCATION, req, messages>>

\* part_004:812-815: the insert settled
ZipInserted(p) ==
    /\ probe.post[p].pc = "insert"
    /\ \E thrown \in BOOLEAN :
          LET q == probe.post[p]
          IN  probe' = [probe EXCEPT
                  !.post[p] = [q EXCEPT !.pc = "closed",
                                        !.status = IF thrown THEN 500 ELSE 201],
                  !.reviewZip = IF thrown THEN @ ELSE Append(@, ZipRow(q.body))]
    /\ UNCHANGED <<variant, hasKey, ORIGINAL_ROOT_LOCATION, req, messages>>

InitZip ==
    /\ variant \in {"upd", "idx"}
    /\ hasKey = TRUE
    /\ ORIGINAL_ROOT_LOCATION = NULL
    /\ req = [r \in Reqs |-> Absent]
    /\ messages = <<>>
    /\ probe \in {[reviewZip |-> t, post |-> b] :
                     t \in {<<>>, <<ZipRow([userId |-> <<"u1">>, zipFileId |-> <<"z2">>])>>},
                     b \in [Posts -> {NewPost(x) : x \in ZipBodies}]}

NextZip == \E p \in Posts : ZipArrive(p) \/ ZipSelected(p) \/ ZipInserted(p)

SpecZip == InitZip /\ [][NextZip]_vars

\* ------------------------------------------------------------------ claims: review-zip

\* C37: the table never holds two rows of one (userId, zipFileId) pair, and a
\* request that arrives when its pair has a row inserts nothing and, when the
\* store answers, is answered 409.
C37_OneRowPerUpload ==
    /\ \A i, j \in 1..Len(probe.reviewZip) :
           probe.reviewZip[i] = probe.reviewZip[j] => i = j
    /\ \A p \in Posts :
           probe.post[p].had =>
              /\ probe.post[p].pc # "insert"
              /\ probe.post[p].status \in {0, 409, 500}

\* C37 happens: a request for a pair that was stored was answered 409, and
\* the table still holds the one row
C37_Witness ==
    /\ probe.post[1].had /\ probe.post[1].status = 409
    /\ probe.reviewZip = <<ZipRow(probe.post[1].body)>>


\* ------------------------------------------------------------------ collectAllFileIds
\* src/frontend/src/routes/ziplab/+server.ts:104-126.  Locations are texts of
\* names and slashes.  The run is held in `probe`.

\* +server.ts:109: const limit = 100
PageLimit == 100

RootFolder == <<"r">>

\* the folders of the tree, by location
TreeFolders ==
    {RootFolder, RootFolder \o <<"/", "a">>, RootFolder \o <<"/", "a", "/", "b">>,
     RootFolder \o <<"/", "c">>}

\* the number of files each folder may hold: none, one, or one more than a page
FileCounts == {0, 1, PageLimit + 1}

\* a tree: the number of files of each folder
Trees == [TreeFolders -> FileCounts]

Slashes == {"/"}

\* replace(/^\/+|\/+$/g, '')
StripSlashes(s) == DropTrail(DropLead(s, Slashes), Slashes)

\* the entries of folder loc as the storage lists them: its files, then its
\* folders, each folder with the location of its parent
EntriesOf(tree, loc) ==
    [k \in 1..tree[loc] |-> [kind |-> "file", id |-> <<loc, k>>]]
    \o (IF loc \o <<"/", "a">> \in TreeFolders
        THEN <<[kind |-> "folder", name |-> "a", location |-> <<"/">> \o loc \o <<"/">>]>>
        ELSE <<>>)
    \o (IF loc \o <<"/", "b">> \in TreeFolders
        THEN <<[kind |-> "folder", name |-> "b", location |-> <<"/">> \o loc \o <<"/">>]>>
        ELSE <<>>)
    \o (IF loc \o <<"/", "c">> \in TreeFolders
        THEN <<[kind |-> "folder", name |-> "c", location |-> <<"/">> \o loc \o <<"/">>]>>
        ELSE <<>>)

\* getFiles({location, limit, page}): the entries of the page, and the
\* pagination array, which names every page of the folder or is left out
GetFiles(tree, paged, loc, limit, page) ==
    LET all == IF loc \in TreeFolders THEN EntriesOf(tree, loc) ELSE <<>>
        from == (page - 1) * limit + 1
        to == Min(page * limit, Len(all))
        pages == Max(1, (Len(all) + limit - 1) \div limit)
    IN  [entries |-> SubSeq(all, from, to),
         pagination |-> IF paged THEN [p \in 1..pages |-> p] ELSE <<>>]

\* +server.ts:116: the location of a listed folder
NextLocation(f) == DropLead(StripSlashes(f.location) \o <<"/", f.name>>, Slashes)

\* +server.ts:120: the highest page of the pagination array, or page
MaxPageOf(res, page) ==
    IF Len(res.pagination) > 0
    THEN CHOOSE m \in {res.pagination[i] : i \in 1..Len(res.pagination)} :
            \A i \in 1..Len(res.pagination) : res.pagination[i] <= m
    ELSE page

\* +server.ts:125: Array.from(new Set(ids)): first occurrences, in order
Distinct(ids) ==
    SelectSeq([i \in 1..Len(ids) |->
                  IF \E j \in 1..(i - 1) : ids[j] = ids[i] THEN NULL ELSE ids[i]],
              LAMBDA x : x # NULL)

\* +server.ts:104-126: one listing settled.  c: queue is the queue after the
\* shift, loc and page the listing awaited
CollectStep ==
    /\ probe.pc = "list"
    /\ LET res == GetFiles(probe.tree, probe.paged, probe.loc, PageLimit, probe.page)
           files == SelectSeq(res.entries, LAMBDA e : e.kind = "file")
           folders == SelectSeq(res.entries, LAMBDA e : e.kind = "folder")
           ids == probe.ids \o [i \in 1..Len(files) |-> files[i].id]
           queue == probe.queue \o [i \in 1..Len(folders) |-> NextLocation(folders[i])]
           last == Len(res.entries) < PageLimit \/ probe.page >= MaxPageOf(res, probe.page)
       IN  probe' =
              IF ~last
              THEN [probe EXCEPT !.ids = ids, !.queue = queue, !.page = @ + 1]
              ELSE IF queue # <<>>
              THEN [probe EXCEPT !.ids = ids, !.queue = Tail(queue), !.loc = Head(queue),
                                 !.page = 1]
              ELSE [probe EXCEPT !.ids = ids, !.queue = <<>>, !.pc = "done",
                                 !.result = Distinct(ids)]
    /\ UNCHANGED <<variant, hasKey, ORIGINAL_ROOT_LOCATION, req, messages>>

\* collectAllFileIds(namespaceId, "/r/") on each tree, at its first listing
InitCollect ==
    /\ variant = "upd"
    /\ hasKey = TRUE
    /\ ORIGINAL_ROOT_LOCATION = NULL
    /\ req = [r \in Reqs |-> Absent]
    /\ messages = <<>>
    /\ probe \in {[tree |-> t, paged |-> g, pc |-> "list", queue |-> <<>>,
                   loc |-> StripSlashes(<<"/">> \o RootFolder \o <<"/">>), page |-> 1,
                   ids |-> <<>>, result |-> <<>>] : t \in Trees, g \in BOOLEAN}

NextCollect == CollectStep

SpecCollect == InitCollect /\ [][NextCollect]_vars

\* ------------------------------------------------------------------ claims: collectAllFileIds

\* the ids of all files of a tree
AllFileIds(tree) == UNION {{<<loc, k>> : k \in 1..tree[loc]} : loc \in TreeFolders}

\* C38: collectAllFileIds returns the id of every file of the root and of
\* every folder under it, each once, also for folders of more than 100
\* entries.
C38_CollectsEveryFileOnce ==
    probe.pc = "done" =>
        /\ {probe.result[i] : i \in 1..Len(probe.result)} = AllFileIds(probe.tree)
        /\ \A i, j \in 1..Len(probe.result) : probe.result[i] = probe.result[j] => i = j

\* C38 happens: with listings that name their pages, the 101 files of a
\* folder two levels down were collected from its two pages
C38_Witness ==
    /\ probe.pc = "done" /\ probe.paged
    /\ probe.tree[RootFolder \o <<"/", "a", "/", "b">>] = PageLimit + 1
    /\ probe.tree[RootFolder] = 1
    /\ Len(probe.result) = Cardinality(AllFileIds(probe.tree))
    /\ Len(probe.result) > PageLimit + 1


\* ------------------------------------------------------------------ the stream readers of the clients

\* the response body, one atom per character group; LF stands for "\n"
LF == "LF"

EventPrefix == <<"event", ":", " ">>

DataPrefix == <<"data", ":", " ">>

CommentPrefix == <<":", " ">>

\* part_004:354: JSON.stringify of the payload object, as far as the model
\* tells payloads apart
Stringify(e) == <<"{", e.status, "}">>

\* part_004:355-356,363: the bytes of one write
Bytes(l) ==
    CASE l.line = "event" -> EventPrefix \o <<l.of.event, LF>>
      [] l.line = "data" -> DataPrefix \o Stringify(l.of) \o <<LF, LF>>
      [] OTHER -> CommentPrefix \o <<"ping", LF, LF>>

RECURSIVE WireBytes(_)
WireBytes(wire) ==
    IF wire = <<>> THEN <<>> ELSE Bytes(Head(wire)) \o WireBytes(Tail(wire))

\* buffer.split('\n'): the pieces between the newlines, one more than there
\* are newlines
SplitLines(s) ==
    LET at == {i \in 1..Len(s) : s[i] = LF}
        n == Cardinality(at)
        cut(k) == IF k = 0 THEN 0
                  ELSE IF k = n + 1 THEN Len(s) + 1
                  ELSE CHOOSE i \in at : Cardinality({j \in at : j <= i}) = k
    IN  [k \in 1..(n + 1) |-> SubSeq(s, cut(k - 1) + 1, cut(k) - 1)]

\* part_000:213-218, +page.svelte:466-477
parseSSELine(line) ==
    IF StartsWith(line, EventPrefix)
    THEN [type |-> "event", value |-> Trim(SubSeq(line, Len(EventPrefix) + 1, Len(line)))]
    ELSE IF StartsWith(line, DataPrefix)
    THEN [type |-> "data", value |-> Trim(SubSeq(line, Len(DataPrefix) + 1, Len(line)))]
    ELSE IF StartsWith(line, CommentPrefix)
    THEN [type |-> "comment", value |-> SubSeq(line, Len(CommentPrefix) + 1, Len(line))]
    ELSE [type |-> "null", value |-> <<>>]

NoData == [set |-> FALSE, json |-> FALSE, value |-> <<>>]

\* part_000:378: JSON.parse of the data value; what does not parse is wrapped
\* as { message: value } by the catch
JSONParse(value) ==
    IF Len(value) = 3 /\ value[1] = "{" /\ value[3] = "}"
    THEN [set |-> TRUE, json |-> TRUE, value |-> <<value[2]>>]
    ELSE [set |-> TRUE, json |-> FALSE, value |-> value]

\* the locals of a read loop and what the page shows; curEvent <<>> is null
NewClient(client) ==
    [client |-> client, pc |-> "reading", pos |-> 0, buffer |-> <<>>,
     curEvent |-> <<>>, curData |-> NoData, delivered |-> <<>>,
     active |-> client = "panel", connecting |-> TRUE, assistantDraft |-> FALSE,
     assistant |-> <<>>, loaded |-> FALSE]

\* part_000:333-340
endActivityRow(c) == [c EXCEPT !.active = FALSE]

\* part_000:400-408: the catch and finally blocks of sendMessage; the second
\* loadMessages either replaces the timeline or throws out of the catch
CatchError(c, reload) ==
    [endActivityRow(c) EXCEPT !.assistant = Append(@, "error"), !.loaded = reload,
                              !.connecting = FALSE, !.pc = "done"]

\* part_000:381-394: what sendMessage does with a complete event; loadOk is
\* whether the fetch of loadMessages succeeds
PanelDeliver(c, loadOk) ==
    LET a == IF c.curEvent = <<"analysis_result">>
             THEN [c EXCEPT !.assistantDraft = TRUE] ELSE c
        b == [endActivityRow(a) EXCEPT
                !.assistant = Append(@, IF a.assistantDraft THEN "draft" ELSE "message"),
                !.loaded = loadOk]
    IN  IF c.curEvent # <<"finished">> THEN [a EXCEPT !.curEvent = <<>>, !.curData = NoData]
        ELSE IF loadOk THEN [b EXCEPT !.curEvent = <<>>, !.curData = NoData]
        ELSE CatchError(b, loadOk)

\* part_000:380-396, +page.svelte:527-531: the blank line after an event
\* that has a name and a payload
Deliver(c, loadOk) ==
    LET d == [c EXCEPT !.delivered = Append(@, [event |-> c.curEvent, data |-> c.curData])]
    IN  IF c.client = "panel" THEN PanelDeliver(d, loadOk)
        ELSE [d EXCEPT !.curEvent = <<>>, !.curData = NoData]

\* part_000:375-397, +page.svelte:521-532: one line of the for loop
ProcessLine(c, line, loadOk) ==
    LET parsed == parseSSELine(line)
    IN  IF parsed.type = "event" THEN [c EXCEPT !.curEvent = parsed.value]
        ELSE IF parsed.type = "data" THEN [c EXCEPT !.curData = JSONParse(parsed.value)]
        ELSE IF line = <<>> /\ c.curEvent # <<>> /\ c.curData.set THEN Deliver(c, loadOk)
        ELSE c

\* the for loop; an exception leaves it
RECURSIVE ProcessLines(_, _, _)
ProcessLines(c, lines, loadOk) ==
    IF lines = <<>> \/ c.pc # "reading" THEN c
    ELSE ProcessLines(ProcessLine(c, Head(lines), loadOk), Tail(lines), loadOk)

FeedWithoutCarry(c, chunk, loadOk) ==
    LET lines == SplitLines(chunk)
    IN  ProcessLines([c EXCEPT !.buffer = lines[Len(lines)], !.pos = @ + Len(chunk)],
                     SubSeq(lines, 1, Len(lines) - 1), loadOk)

\* part_000:371-373, +page.svelte:517-519: one chunk of reader.read()
Feed(c, chunk, loadOk) ==
    LET lines == SplitLines(c.buffer \o chunk)
    IN  ProcessLines([c EXCEPT !.buffer = lines[Len(lines)], !.pos = @ + Len(chunk)],
                     SubSeq(lines, 1, Len(lines) - 1), loadOk)

\* part_000:369 and 404-408, +page.svelte:515 and 535-536: reader.read()
\* reports the end of the body
EndOfStream(c) == [c EXCEPT !.connecting = FALSE, !.pc = "done"]

\* the events a server writes in the reader specification
StreamEvents ==
    {E("start", "started"), E("analysis_result", ""), E("finished", "success"),
     E("done", "failed")}

NewStream(client) == [sent |-> <<>>, wire |-> <<>>, ended |-> FALSE, c |-> NewClient(client)]

\* part_004:353-357: one send(); the handler ends the response right after
\* a done or finished event (part_004:371-372,376-377,436-437,747-755)
StreamSend ==
    /\ ~probe.ended
    /\ Len(probe.sent) < MaxSent
    /\ \E e \in StreamEvents :
          probe' = [probe EXCEPT !.sent = Append(@, e), !.wire = @ \o WireLines(<<e>>),
                                 !.ended = e.event \in {"done", "finished"}]
    /\ UNCHANGED <<variant, hasKey, ORIGINAL_ROOT_LOCATION, req, messages>>

\* part_004:363: the timer fires between two steps of the handler
StreamPing ==
    /\ ~probe.ended
    /\ Pings(probe.wire) < MaxPings
    /\ probe' = [probe EXCEPT !.wire = Append(@, PingLine)]
    /\ UNCHANGED <<variant, hasKey, ORIGINAL_ROOT_LOCATION, req, messages>>

\* reader.read() resolves with some of the bytes that were written
StreamRead ==
    /\ probe.c.pc = "reading"
    /\ LET bytes == WireBytes(probe.wire)
       IN  \E n \in 1..(Len(bytes) - probe.c.pos), loadOk \in BOOLEAN :
              probe' = [probe EXCEPT
                           !.c = Feed(@, SubSeq(bytes, @.pos + 1, @.pos + n), loadOk)]
    /\ UNCHANGED <<variant, hasKey, ORIGINAL_ROOT_LOCATION, req, messages>>

\* reader.read() resolves with done
StreamDone ==
    /\ probe.c.pc = "reading"
    /\ probe.ended
    /\ probe.c.pos = Len(WireBytes(probe.wire))
    /\ probe' = [probe EXCEPT !.c = EndOfStream(@)]
    /\ UNCHANGED <<variant, hasKey, ORIGINAL_ROOT_LOCATION, req, messages>>

InitStream ==
    /\ variant = "upd"
    /\ hasKey = TRUE
    /\ ORIGINAL_ROOT_LOCATION = NULL
    /\ req = [r \in Reqs |-> Absent]
    /\ messages = <<>>
    /\ probe \in {NewStream(client) : client \in {"panel", "page"}}

NextStream == StreamSend \/ StreamPing \/ StreamRead \/ StreamDone

SpecStream == InitStream /\ [][NextStream]_vars

\* ------------------------------------------------------------------ claims: the stream readers

\* how many of the first `pos` bytes of the wire each line ends at
RECURSIVE EndsOf(_, _)
EndsOf(wire, from) ==
    IF wire = <<>> THEN <<>>
    ELSE <<from + Len(Bytes(Head(wire)))>> \o EndsOf(Tail(wire), from + Len(Bytes(Head(wire))))

\* the number of events whose data line and blank line lie within the first
\* `pos` bytes
Completed(wire, pos) ==
    Cardinality({i \in 1..Len(wire) : wire[i].line = "data" /\ EndsOf(wire, 0)[i] <= pos})

Pair(e) == [event |-> <<e.event>>, data |-> JSONParse(Stringify(e))]

\* C39: whatever the chunks were, what a read loop has delivered after the
\* first pos bytes is the name and payload of each event that lies within
\* them, once and in the order sent; a keep-alive comment adds nothing and
\* leaves the event being assembled as it was.
C39_ChunkingDoesNotMatter ==
    LET n == Completed(probe.wire, probe.c.pos)
    IN  probe.c.delivered = [k \in 1..n |-> Pair(probe.sent[k])]

\* a chunk ended inside the data line of the second event, after a
\* keep-alive comment and a first event that was delivered
C39_Witness ==
    /\ Len(probe.c.delivered) = 1
    /\ probe.c.curEvent # <<>>
    /\ ~probe.c.curData.set
    /\ probe.c.buffer # <<>>
    /\ Len(probe.wire) = 5
    /\ probe.wire[3] = PingLine


\* ------------------------------------------------------------------ the chat panel on a review stream

\* part_000:342-353: sendMessage has begun the activity row and set
\* connecting; `window` is the LLM invocation since which the response body
\* is kept in req[1].wire
NewPanel == [c |-> NewClient("panel"), window |-> 0]

\* reader.read() resolves with the bytes written since the last read
PanelRead ==
    /\ probe.c.pc = "reading"
    /\ probe.window = req[1].llmCalls
    /\ LET bytes == WireBytes(req[1].wire)
       IN  /\ probe.c.pos < Len(bytes)
           /\ \E loadOk \in BOOLEAN :
                 probe' = [probe EXCEPT
                              !.c = Feed(@, SubSeq(bytes, @.pos + 1, Len(bytes)), loadOk)]
    /\ UNCHANGED <<variant, hasKey, ORIGINAL_ROOT_LOCATION, req, messages>>

\* the events written before the latest LLM invocation have been read: they
\* are neither analysis_result nor finished, and end with a blank line
PanelNextWindow ==
    /\ probe.c.pc = "reading"
    /\ probe.window # req[1].llmCalls
    /\ probe' = [probe EXCEPT !.c.pos = 0, !.window = req[1].llmCalls]
    /\ UNCHANGED <<variant, hasKey, ORIGINAL_ROOT_LOCATION, req, messages>>

\* reader.read() resolves with done once the handler has ended the response
PanelDone ==
    /\ probe.c.pc = "reading"
    /\ probe.window = req[1].llmCalls
    /\ req[1].pc = "closed"
    /\ probe.c.pos = Len(WireBytes(req[1].wire))
    /\ probe' = [probe EXCEPT !.c = EndOfStream(@)]
    /\ UNCHANGED <<variant, hasKey, ORIGINAL_ROOT_LOCATION, req, messages>>

InitPanel ==
    /\ variant \in {"upd", "idx"}
    /\ hasKey \in BOOLEAN
    /\ ORIGINAL_ROOT_LOCATION = NULL
    /\ req = [r \in Reqs |-> IF r = 1 THEN NewReq("idle", TRUE, 1, 1, {TRUE}, {})
                             ELSE Absent]
    /\ messages = <<>>
    /\ probe = NewPanel

NextPanel == Next \/ PanelRead \/ PanelNextWindow \/ PanelDone

SpecPanel == InitPanel /\ [][NextPanel]_vars

\* ------------------------------------------------------------------ claims: the chat panel

\* C31: once the response stream of a sendMessage call has ended, whatever
\* path the server took, the activity row is no longer active, connecting is
\* false and an assistant message, the answer or an error, has been shown.
C31_PanelReachesEndState ==
    (probe.c.pc = "done" /\ req[1].connected)
        => /\ ~probe.c.active
           /\ ~probe.c.connecting
           /\ probe.c.assistant # <<>>

\* the stream of a run that answered has ended, and the panel shows the
\* drafted answer on an activity row that is closed
C31_Witness ==
    /\ probe.c.pc = "done"
    /\ req[1].connected
    /\ req[1].events[Len(req[1].events)] = E("finished", "success")
    /\ probe.c.assistant = <<"draft">>
    /\ ~probe.c.active
    /\ ~probe.c.connecting

=============================================================================
